---- MODULE Spec2Model ----
(***************************************************************************)
(* Whitespace Overview Engine of synapseip (src/app/overview_api.py,       *)
(* src/app/overview_signals.py).                                           *)
(*                                                                         *)
(* Spec      : one POST /graph request (get_overview_graph) followed by    *)
(*             its write-back task (_persist_background).                  *)
(* The pure functions of the pipeline are operators; each has a            *)
(* specification of its own whose Init draws the inputs from bounded sets. *)
(***************************************************************************)
EXTENDS Integers, Sequences, FiniteSets, TLC

(***************************************************************************)
(* Program constants                                                       *)
(***************************************************************************)
_MAX_DB_RETRIES == 5
MAX_GRAPH_LIMIT == 2000
MAX_GRAPH_NEIGHBORS == 50
MAX_GRAPH_LAYOUT_NEIGHBORS == 50

(***************************************************************************)
(* Bounds of the model                                                     *)
(***************************************************************************)
\* largest number of rows a candidate query returns (load_embeddings on its own)
MaxRows == 2
\* largest number of candidates a request retrieves
MaxPoints == 3
\* largest neighbors / layout_neighbors value a request carries
MaxK == 3

None == 0

VARIABLES
  \* ---- module-level state of overview_api.py
  _DB_URL,        \* TRUE when DATABASE_URL is set
  _pool,          \* the global pool: None or a pool id
  created,        \* number of ConnectionPool objects constructed so far
  closed,         \* ids of the pools on which close() was called
  \* ---- get_overview_graph
  req,            \* the GraphRequest
  pc,             \* position of the request handler
  attempts, last_error, current_pool, pool,
  fetched,        \* rows the focus and the fallback query returned in the current attempt
  point_count,    \* len(pub_ids) of the current attempt
  called,         \* pipeline steps invoked so far, in order
  scheduled,      \* number of background_tasks.add_task calls
  response,       \* None, or the outcome of the request
  \* ---- _persist_background
  bg_pc, bg_attempts, bg_current_pool, bg_last_error,
  bg_history,     \* outcome of every _persist_sync attempt, in order
  bg_sleeps,      \* the delays slept, in tenths of a second
  \* ---- the pure functions, applied on their own
  args,           \* the arguments of the call
  result          \* None before the call, then what it returned

poolVars == <<_DB_URL, _pool, created, closed>>
reqVars == <<req, pc, attempts, last_error, current_pool, pool, fetched, point_count,
             called, scheduled, response>>
bgVars == <<bg_pc, bg_attempts, bg_current_pool, bg_last_error, bg_history, bg_sleeps>>
fnVars == <<args, result>>
vars == <<poolVars, reqVars, bgVars, fnVars>>

(***************************************************************************)
(* Exceptions                                                              *)
(***************************************************************************)
NoExc == [cls |-> "none", status |-> 0, detail |-> "", recoverable |-> FALSE]
HTTPException(status, detail) ==
  [cls |-> "HTTPException", status |-> status, detail |-> detail, recoverable |-> FALSE]
OperationalError(rec) ==
  [cls |-> "OperationalError", status |-> 0, detail |-> "", recoverable |-> rec]
OtherError(cls) == [cls |-> cls, status |-> 0, detail |-> "", recoverable |-> FALSE]
\* the value a handler returns normally
Returned(what) == [cls |-> what, status |-> 200, detail |-> "", recoverable |-> FALSE]

\* what a statement that talks to the database can raise
DbErrors == { OperationalError(TRUE), OperationalError(FALSE),
              OtherError("UndefinedTable"), OtherError("InsufficientPrivilege") }

is_recoverable_operational_error(exc) == exc.recoverable

DETAIL_NO_EMBEDDINGS == "No embeddings match the filters."
DETAIL_RETRY == "Temporary database connectivity issue. Please retry your request."

(***************************************************************************)
(* DB pool: _reset_pool / get_pool                                         *)
(***************************************************************************)
\* get_pool() raises RuntimeError exactly when it must build a pool and cannot
get_pool_raises(gp) == gp = None /\ ~_DB_URL
\* the pool get_pool() returns when the global is gp and n pools exist
get_pool_result(gp, n) == IF gp = None THEN n + 1 ELSE gp
get_pool_created(gp, n) == IF gp = None THEN n + 1 ELSE n

\* _reset_pool clearing the global only while it still holds bad_pool
reset_pool_global_if_same(bad_pool) ==
  IF bad_pool = None \/ _pool # bad_pool THEN _pool ELSE None

\* _reset_pool(bad_pool) then get_pool(): the pair both error handlers run.
\* close() errors are swallowed; the global is cleared whatever it holds.
reset_pool_global(bad_pool) == IF bad_pool = None THEN _pool ELSE None

\* the pools closed so far, after bad_pool.close()
reset_pool_closed(bad_pool) == IF bad_pool = None THEN closed ELSE closed \cup {bad_pool}

(***************************************************************************)
(* Candidate Builder: load_embeddings                                      *)
(* A row is [pub_id, is_focus, embedding]; the rows of a query are a       *)
(* sequence; LIMIT n keeps the first n.                                    *)
(***************************************************************************)
Min(a, b) == IF a <= b THEN a ELSE b
Max(a, b) == IF a >= b THEN a ELSE b
Abs(a) == IF a < 0 THEN -a ELSE a
Take(s, n) == SubSeq(s, 1, Min(n, Len(s)))
Range(s) == { s[i] : i \in DOMAIN s }

\* _ingest_rows over the rows of one cursor, starting from the lists built so far
RECURSIVE _ingest_rows_no_dedup(_, _, _)
_ingest_rows_no_dedup(acc, rows, target_limit) ==
  IF rows = <<>> THEN [acc EXCEPT !.hit = FALSE]
  ELSE LET r == Head(rows) IN
       LET acc2 == [ vecs |-> Append(acc.vecs, r.embedding),
                     meta |-> Append(acc.meta, [pub_id |-> r.pub_id, is_focus |-> r.is_focus]),
                     seen_pub_ids |-> acc.seen_pub_ids \cup {r.pub_id},
                     hit |-> FALSE ] IN
       IF Len(acc2.vecs) >= target_limit THEN [acc2 EXCEPT !.hit = TRUE]
       ELSE _ingest_rows_no_dedup(acc2, Tail(rows), target_limit)

RECURSIVE _ingest_rows(_, _, _)
_ingest_rows(acc, rows, target_limit) ==
  IF rows = <<>> THEN [acc EXCEPT !.hit = FALSE]
  ELSE LET r == Head(rows) IN
       IF r.pub_id \in acc.seen_pub_ids
       THEN _ingest_rows(acc, Tail(rows), target_limit)
       ELSE LET acc2 == [ vecs |-> Append(acc.vecs, r.embedding),
                          meta |-> Append(acc.meta, [pub_id |-> r.pub_id, is_focus |-> r.is_focus]),
                          seen_pub_ids |-> acc.seen_pub_ids \cup {r.pub_id},
                          hit |-> FALSE ] IN
            IF Len(acc2.vecs) >= target_limit THEN [acc2 EXCEPT !.hit = TRUE]
            ELSE _ingest_rows(acc2, Tail(rows), target_limit)

\* X = X / norms with norms[norms == 0] = 1.0, for one-dimensional vectors
Normalize(e) == IF e = 0 THEN 0 ELSE e \div Abs(e)

target_limit_of(limit) == Min(IF limit = 0 THEN MAX_GRAPH_LIMIT ELSE limit, MAX_GRAPH_LIMIT)

\* load_embeddings without the "if not vecs: raise" of line 1185
load_embeddings_no_empty_check(limit, has_focus_filters, focus_rows, fallback_rows) ==
  LET target_limit == target_limit_of(limit)
      empty == [vecs |-> <<>>, meta |-> <<>>, seen_pub_ids |-> {}, hit |-> FALSE]
      a1 == IF has_focus_filters
            THEN _ingest_rows(empty, Take(focus_rows, target_limit), target_limit)
            ELSE empty
      a2 == IF ~a1.hit /\ Len(a1.vecs) < target_limit
            THEN _ingest_rows(a1, Take(fallback_rows, target_limit), target_limit)
            ELSE a1
  IN [exc |-> NoExc,
      X |-> [i \in 1..Len(a2.vecs) |-> Normalize(a2.vecs[i])],
      meta |-> a2.meta]

\* load_embeddings(conn, model, req, ...): focus_rows / fallback_rows are what the
\* two queries would return without their LIMIT.  Result: [exc, X, meta].
load_embeddings(limit, has_focus_filters, focus_rows, fallback_rows) ==
  LET target_limit == target_limit_of(limit)
      empty == [vecs |-> <<>>, meta |-> <<>>, seen_pub_ids |-> {}, hit |-> FALSE]
      a1 == IF has_focus_filters
            THEN _ingest_rows(empty, Take(focus_rows, target_limit), target_limit)
            ELSE empty
      done == a1.hit
      fallback_limit == IF ~has_focus_filters THEN target_limit
                        ELSE Min(target_limit * 2, MAX_GRAPH_LIMIT * 2)
      a2 == IF ~done /\ Len(a1.vecs) < target_limit
            THEN _ingest_rows(a1, Take(fallback_rows, fallback_limit), target_limit)
            ELSE a1
  IN IF target_limit <= 0
     THEN [exc |-> HTTPException(400, "limit must be greater than zero."), X |-> <<>>, meta |-> <<>>]
     ELSE IF a2.vecs = <<>>
     THEN [exc |-> HTTPException(400, DETAIL_NO_EMBEDDINGS), X |-> <<>>, meta |-> <<>>]
     ELSE [exc |-> NoExc,
           X |-> [i \in 1..Len(a2.vecs) |-> Normalize(a2.vecs[i])],
           meta |-> a2.meta]

(***************************************************************************)
(* get_overview_graph: one request                                         *)
(***************************************************************************)
SCALE == 10 ^ 4   \* fixed-point unit: the real number v is the integer v * SCALE

\* the i-th row the store holds for this request's scope, newest first
CandidateRow(i, focus) == [pub_id |-> i, is_focus |-> focus, embedding |-> 1]
\* the first n rows of the scope, of which the first nfocus match the focus filters
CandidateRows(n, nfocus) == [i \in 1..n |-> CandidateRow(i, i <= nfocus)]

Requests ==
  [ neighbors : 1..MaxK, layout_neighbors : 2..MaxK, limit : 1..MaxPoints,
    search_mode : {"keywords", "assignee"}, assignee_query : {"", "acme"},
    has_focus_filters : BOOLEAN, beta : {SCALE \div 2, 2 * SCALE} ]

_validate_graph_params(r) ==
  LET violations ==
        (IF ~(1 <= r.limit /\ r.limit <= MAX_GRAPH_LIMIT) THEN {"limit"} ELSE {})
        \cup (IF ~(1 <= r.neighbors /\ r.neighbors <= MAX_GRAPH_NEIGHBORS)
              THEN {"neighbors"} ELSE {})
        \cup (IF ~(2 <= r.layout_neighbors /\ r.layout_neighbors <= MAX_GRAPH_LAYOUT_NEIGHBORS)
              THEN {"layout_neighbors"} ELSE {})
        \cup (IF r.search_mode = "assignee" /\ r.assignee_query = ""
              THEN {"assignee_query"} ELSE {})
  IN IF violations # {} THEN HTTPException(400, "violations") ELSE NoExc

\* the request ends by raising exc out of the handler
Fail(exc) ==
  /\ pc' = "failed"
  /\ response' = exc
  /\ UNCHANGED <<attempts, last_error, current_pool, poolVars>>

\* the except clauses of the retry loop (a recoverable error: reset the pool,
\* take a new one, sleep, next iteration)
RetryExcept(exc) ==
  IF exc.cls = "UndefinedTable"
  THEN Fail(HTTPException(500, "Overview graph schema is not initialized. Run database migrations."))
  ELSE IF exc.cls = "InsufficientPrivilege"
  THEN Fail(HTTPException(500, "Database role is missing privileges required for overview queries."))
  ELSE IF exc.cls = "OperationalError" /\ is_recoverable_operational_error(exc)
  THEN LET g == reset_pool_global(current_pool) IN
       /\ attempts' = attempts + 1
       /\ last_error' = exc
       /\ closed' = reset_pool_closed(current_pool)
       /\ UNCHANGED _DB_URL
       /\ IF get_pool_raises(g)
          THEN /\ _pool' = g /\ created' = created /\ current_pool' = current_pool
               /\ pc' = "failed" /\ response' = OtherError("RuntimeError")
          ELSE /\ _pool' = get_pool_result(g, created)
               /\ created' = get_pool_created(g, created)
               /\ current_pool' = get_pool_result(g, created)
               /\ pc' = "loop" /\ response' = response
  ELSE Fail(exc)

\* a step inside the with-block that raises exc
Raise(exc) ==
  RetryExcept(exc) /\ UNCHANGED <<req, pool, fetched, point_count, called, scheduled>>

\* a step that completes and moves on
Goto(next) ==
  /\ pc' = next
  /\ UNCHANGED <<req, attempts, last_error, current_pool, pool, response, scheduled, poolVars>>

\* a step other than load_embeddings that completes
Done(next) == Goto(next) /\ UNCHANGED fetched

\* Depends(get_pool) resolves the pool parameter before the handler body runs
ResolvePool ==
  /\ pc = "depends"
  /\ UNCHANGED <<bgVars, fnVars>>
  /\ IF get_pool_raises(_pool)
     THEN /\ pc' = "failed" /\ response' = OtherError("RuntimeError")
          /\ UNCHANGED <<pool, poolVars>>
     ELSE /\ pool' = get_pool_result(_pool, created)
          /\ _pool' = get_pool_result(_pool, created)
          /\ created' = get_pool_created(_pool, created)
          /\ pc' = "validate" /\ UNCHANGED <<response, _DB_URL, closed>>
  /\ UNCHANGED <<req, attempts, last_error, current_pool, fetched, point_count, called,
                 scheduled>>

\* lines 2208-2221: validation, the user id, the loop's initial state
Validate ==
  /\ pc = "validate"
  /\ UNCHANGED <<bgVars, fnVars>>
  /\ \E has_sub \in BOOLEAN :
       IF _validate_graph_params(req) # NoExc
       THEN pc' = "failed" /\ response' = _validate_graph_params(req)
            /\ UNCHANGED <<attempts, last_error, current_pool>>
       ELSE IF ~has_sub
       THEN pc' = "failed"
            /\ response' = HTTPException(401, "User ID not found in authentication token")
            /\ UNCHANGED <<attempts, last_error, current_pool>>
       ELSE pc' = "loop" /\ attempts' = 0 /\ last_error' = NoExc /\ current_pool' = pool
            /\ UNCHANGED response
  /\ UNCHANGED <<req, pool, fetched, point_count, called, scheduled, poolVars>>

\* the loop test with <= for <
LoopTestOneMore ==
  /\ pc = "loop"
  /\ UNCHANGED <<bgVars, fnVars>>
  /\ IF attempts <= _MAX_DB_RETRIES
     THEN pc' = "connect" /\ called' = <<>> /\ point_count' = 0 /\ fetched' = <<>>
          /\ UNCHANGED response
     ELSE pc' = "failed" /\ response' = HTTPException(503, DETAIL_RETRY)
          /\ UNCHANGED <<called, point_count, fetched>>
  /\ UNCHANGED <<req, attempts, last_error, current_pool, pool, scheduled, poolVars>>

\* while attempts < _MAX_DB_RETRIES: ... else: raise 503
LoopTest ==
  /\ pc = "loop"
  /\ UNCHANGED <<bgVars, fnVars>>
  /\ IF attempts < _MAX_DB_RETRIES
     THEN pc' = "connect" /\ called' = <<>> /\ point_count' = 0 /\ fetched' = <<>>
          /\ UNCHANGED response
     ELSE pc' = "failed" /\ response' = HTTPException(503, DETAIL_RETRY)
          /\ UNCHANGED <<called, point_count, fetched>>
  /\ UNCHANGED <<req, attempts, last_error, current_pool, pool, scheduled, poolVars>>

\* with current_pool.connection() as conn
Connect ==
  /\ pc = "connect"
  /\ UNCHANGED <<bgVars, fnVars>>
  /\ \/ Done("subscription") /\ UNCHANGED <<point_count, called>>
     \/ \E rec \in BOOLEAN : Raise(OperationalError(rec))

EnsureSubscription ==
  /\ pc = "subscription"
  /\ UNCHANGED <<bgVars, fnVars>>
  /\ \/ Done("pick_model") /\ UNCHANGED <<point_count, called>>
     \/ \E exc \in DbErrors \cup {OtherError("SubscriptionRequiredError")} : Raise(exc)

PickModel ==
  /\ pc = "pick_model"
  /\ UNCHANGED <<bgVars, fnVars>>
  /\ \/ Done(IF req.search_mode = "assignee" THEN "match_assignees" ELSE "load_embeddings")
        /\ UNCHANGED <<point_count, called>>
     \/ \E exc \in DbErrors \cup {HTTPException(400, "No embeddings available in the database.")} :
          Raise(exc)

MatchCanonicalAssignees ==
  /\ pc = "match_assignees"
  /\ UNCHANGED <<bgVars, fnVars>>
  /\ \/ Done("load_embeddings") /\ UNCHANGED <<point_count, called>>
     \/ \E exc \in DbErrors \cup
            {HTTPException(404, "No canonical assignee matches found above the similarity threshold.")} :
          Raise(exc)

\* X, meta = load_embeddings(...); point_count = len(pub_ids)
LoadEmbeddings ==
  /\ pc = "load_embeddings"
  /\ UNCHANGED <<bgVars, fnVars>>
  /\ \/ \E nb \in 0..MaxPoints : \E nf \in 0..Min(1, nb) :
          LET got == load_embeddings(req.limit, req.has_focus_filters,
                                     CandidateRows(nf, nf),
                                     CandidateRows(nb, IF req.has_focus_filters THEN nf ELSE 0))
          IN IF got.exc # NoExc
             THEN RetryExcept(got.exc) /\ fetched' = <<nf, nb>>
                  /\ UNCHANGED <<req, pool, point_count, called, scheduled>>
             ELSE Goto("checks") /\ fetched' = <<nf, nb>>
                  /\ point_count' = Len(got.meta)
                  /\ called' = Append(called, "load_embeddings")
     \/ \E exc \in DbErrors : Raise(exc)

\* lines 2246-2257 with the neighbor test off by one (k = N passes)
PointCountChecksOffByOne ==
  /\ pc = "checks"
  /\ UNCHANGED <<bgVars, fnVars>>
  /\ IF point_count < 2
     THEN Raise(HTTPException(400, "Not enough embeddings to build overview graph."))
     ELSE IF req.neighbors > point_count
     THEN Raise(HTTPException(400, "neighbors must be less than the number of embeddings"))
     ELSE IF req.layout_neighbors > point_count
     THEN Raise(HTTPException(400, "layout_neighbors must be less than the number of embeddings"))
     ELSE Done("build_knn") /\ UNCHANGED <<point_count, called>>

\* lines 2246-2257
PointCountChecks ==
  /\ pc = "checks"
  /\ UNCHANGED <<bgVars, fnVars>>
  /\ IF point_count < 2
     THEN Raise(HTTPException(400, "Not enough embeddings to build overview graph."))
     ELSE IF req.neighbors >= point_count
     THEN Raise(HTTPException(400, "neighbors must be less than the number of embeddings"))
     ELSE IF req.layout_neighbors >= point_count
     THEN Raise(HTTPException(400, "layout_neighbors must be less than the number of embeddings"))
     ELSE Done("build_knn") /\ UNCHANGED <<point_count, called>>

\* a computation step that calls into a library: it returns or raises
Compute(here, next) ==
  /\ pc = here
  /\ UNCHANGED <<bgVars, fnVars>>
  /\ \/ Done(next) /\ called' = Append(called, here) /\ UNCHANGED point_count
     \/ Raise(OtherError("LibraryError"))

BuildKnn == Compute("build_knn", "cluster_labels")
ClusterLabels == Compute("cluster_labels", "local_density")

LocalDensity ==
  /\ pc = "local_density"
  /\ UNCHANGED <<bgVars, fnVars>>
  /\ Done("neighbor_momentum") /\ called' = Append(called, "local_density")
  /\ UNCHANGED point_count

NeighborMomentum ==
  /\ pc = "neighbor_momentum"
  /\ UNCHANGED <<bgVars, fnVars>>
  /\ \/ Done("compute_overview_metrics") /\ called' = Append(called, "neighbor_momentum")
        /\ UNCHANGED point_count
     \/ \E exc \in DbErrors : Raise(exc)

\* compute_overview_metrics with the write-back scheduled inside the loop
ComputeOverviewMetricsSchedules ==
  /\ pc = "compute_overview_metrics"
  /\ UNCHANGED <<bgVars, fnVars>>
  /\ IF ~(0 <= req.beta /\ req.beta <= SCALE)
     THEN Raise(OtherError("AssertionError"))
     ELSE /\ pc' = "layout"
          /\ pool' = current_pool
          /\ called' = Append(called, "compute_overview_metrics")
          /\ scheduled' = scheduled + 1
          /\ UNCHANGED <<req, attempts, last_error, current_pool, response,
                         fetched, point_count, poolVars>>

\* compute_overview_metrics, then leaving the with-block: pool = current_pool; break
ComputeOverviewMetrics ==
  /\ pc = "compute_overview_metrics"
  /\ UNCHANGED <<bgVars, fnVars>>
  /\ IF ~(0 <= req.beta /\ req.beta <= SCALE)
     THEN Raise(OtherError("AssertionError"))
     ELSE /\ pc' = "layout"
          /\ pool' = current_pool
          /\ called' = Append(called, "compute_overview_metrics")
          /\ UNCHANGED <<req, attempts, last_error, current_pool, response, scheduled,
                         fetched, point_count, poolVars>>

\* after the loop: nothing here is caught
After(here, next) ==
  /\ pc = here
  /\ UNCHANGED <<bgVars, fnVars>>
  /\ Done(next) /\ called' = Append(called, here) /\ UNCHANGED point_count

Layout ==
  /\ pc = "layout"
  /\ UNCHANGED <<bgVars, fnVars>>
  /\ \/ Done("build_group_signals") /\ called' = Append(called, "layout")
        /\ UNCHANGED point_count
     \/ /\ Fail(OtherError("LibraryError"))
        /\ UNCHANGED <<req, pool, fetched, point_count, called, scheduled>>

BuildGroupSignals == After("build_group_signals", "graph_context")
BuildGraphContext == After("graph_context", "add_task")

\* background_tasks.add_task(_persist_background, pool, ...)
AddTask ==
  /\ pc = "add_task"
  /\ UNCHANGED <<bgVars, fnVars>>
  /\ pc' = "respond"
  /\ scheduled' = scheduled + 1
  /\ UNCHANGED <<req, attempts, last_error, current_pool, pool, response, fetched,
                 point_count, called, poolVars>>

\* return OverviewResponse(...)
Respond ==
  /\ pc = "respond"
  /\ UNCHANGED <<bgVars, fnVars>>
  /\ pc' = "done"
  /\ response' = Returned("OverviewResponse")
  /\ UNCHANGED <<req, attempts, last_error, current_pool, pool, fetched, point_count,
                 called, scheduled, poolVars>>

(***************************************************************************)
(* _persist_background: the write-back task, run after the response        *)
(***************************************************************************)
\* what one attempt (pool.connection() and _persist_sync) can raise
PersistErrors == DbErrors \cup {OtherError("Exception")}

\* the task starts when the response has been sent
PersistStart ==
  /\ pc = "done" /\ scheduled > 0 /\ bg_pc = "idle"
  /\ bg_pc' = "loop"
  /\ bg_attempts' = 0
  /\ bg_last_error' = NoExc
  /\ bg_current_pool' = pool
  /\ UNCHANGED <<bg_history, bg_sleeps, reqVars, poolVars, fnVars>>

\* the loop test letting one more attempt through
PersistLoopTestOneMore ==
  /\ bg_pc = "loop"
  /\ bg_pc' = IF bg_attempts <= _MAX_DB_RETRIES THEN "attempt" ELSE "returned"
  /\ UNCHANGED <<bg_attempts, bg_current_pool, bg_last_error, bg_history, bg_sleeps,
                 reqVars, poolVars, fnVars>>

\* while attempts < _MAX_DB_RETRIES: ...; logger.error(...) after the loop
PersistLoopTest ==
  /\ bg_pc = "loop"
  /\ bg_pc' = IF bg_attempts < _MAX_DB_RETRIES THEN "attempt" ELSE "returned"
  /\ UNCHANGED <<bg_attempts, bg_current_pool, bg_last_error, bg_history, bg_sleeps,
                 reqVars, poolVars, fnVars>>

\* the except clauses of _persist_background, lines 1472-1489, as a mutant that
\* re-raises what it does not retry (the way get_overview_graph does)
PersistExceptReraise(exc) ==
  IF exc.cls = "OperationalError" /\ is_recoverable_operational_error(exc)
  THEN LET g == reset_pool_global(bg_current_pool) IN
       /\ bg_attempts' = bg_attempts + 1
       /\ bg_last_error' = exc
       /\ closed' = reset_pool_closed(bg_current_pool)
       /\ UNCHANGED _DB_URL
       /\ IF get_pool_raises(g)
          THEN /\ _pool' = g /\ created' = created
               /\ bg_current_pool' = bg_current_pool
               /\ bg_sleeps' = bg_sleeps
               /\ bg_pc' = "raised"
          ELSE /\ _pool' = get_pool_result(g, created)
               /\ created' = get_pool_created(g, created)
               /\ bg_current_pool' = get_pool_result(g, created)
               /\ bg_sleeps' = Append(bg_sleeps, Min(bg_attempts + 1, 10))
               /\ bg_pc' = "loop"
  ELSE /\ bg_pc' = "raised"
       /\ UNCHANGED <<bg_attempts, bg_current_pool, bg_last_error, bg_sleeps, poolVars>>

\* the except clauses of _persist_background, lines 1472-1489
PersistExcept(exc) ==
  IF exc.cls = "OperationalError"
  THEN IF ~is_recoverable_operational_error(exc)
       THEN /\ bg_pc' = "returned"
            /\ UNCHANGED <<bg_attempts, bg_current_pool, bg_last_error, bg_sleeps, poolVars>>
       ELSE LET g == reset_pool_global(bg_current_pool) IN
            /\ bg_attempts' = bg_attempts + 1
            /\ bg_last_error' = exc
            /\ closed' = reset_pool_closed(bg_current_pool)
            /\ UNCHANGED _DB_URL
            /\ IF get_pool_raises(g)
               THEN /\ _pool' = g /\ created' = created
                    /\ bg_current_pool' = bg_current_pool
                    /\ bg_sleeps' = bg_sleeps
                    /\ bg_pc' = "raised"
               ELSE /\ _pool' = get_pool_result(g, created)
                    /\ created' = get_pool_created(g, created)
                    /\ bg_current_pool' = get_pool_result(g, created)
                    /\ bg_sleeps' = Append(bg_sleeps, Min(bg_attempts + 1, 10))
                    /\ bg_pc' = "loop"
  ELSE /\ bg_pc' = "returned"
       /\ UNCHANGED <<bg_attempts, bg_current_pool, bg_last_error, bg_sleeps, poolVars>>

\* one iteration of the loop body: the attempt and, when it raises, its handler
PersistAttempt ==
  /\ bg_pc = "attempt"
  /\ \/ /\ bg_history' = Append(bg_history, NoExc)
        /\ bg_pc' = "returned"
        /\ UNCHANGED <<bg_attempts, bg_current_pool, bg_last_error, bg_sleeps, poolVars>>
     \/ \E exc \in PersistErrors :
          /\ bg_history' = Append(bg_history, exc)
          /\ PersistExcept(exc)
  /\ UNCHANGED <<reqVars, fnVars>>

(***************************************************************************)
(* Spec: a request and its write-back                                      *)
(***************************************************************************)
PersistIdle ==
  /\ bg_pc = "idle" /\ bg_attempts = 0 /\ bg_current_pool = None
  /\ bg_last_error = NoExc /\ bg_history = <<>> /\ bg_sleeps = <<>>

Init ==
  /\ _DB_URL \in BOOLEAN
  /\ _pool = None /\ created = 0 /\ closed = {}
  /\ req \in Requests
  /\ pc = "depends"
  /\ attempts = 0 /\ last_error = NoExc /\ current_pool = None /\ pool = None
  /\ fetched = <<>> /\ point_count = 0 /\ called = <<>> /\ scheduled = 0
  /\ response = NoExc
  /\ PersistIdle
  /\ args = None /\ result = None

Next ==
  \/ ResolvePool \/ Validate \/ LoopTest \/ Connect \/ EnsureSubscription \/ PickModel
  \/ MatchCanonicalAssignees \/ LoadEmbeddings \/ PointCountChecks \/ BuildKnn
  \/ ClusterLabels \/ LocalDensity \/ NeighborMomentum \/ ComputeOverviewMetrics
  \/ Layout \/ BuildGroupSignals \/ BuildGraphContext \/ AddTask \/ Respond
  \/ PersistStart \/ PersistLoopTest \/ PersistAttempt

Spec == Init /\ [][Next]_vars

(***************************************************************************)
(* Properties of a request (Spec)                                          *)
(***************************************************************************)
\* positions inside the body of the retry loop
InBlock == {"connect", "subscription", "pick_model", "match_assignees", "load_embeddings",
            "checks", "build_knn", "cluster_labels", "local_density", "neighbor_momentum",
            "compute_overview_metrics"}
GraphSteps == {"build_knn", "cluster_labels", "neighbor_momentum", "compute_overview_metrics"}
FullPipeline == <<"load_embeddings", "build_knn", "cluster_labels", "local_density",
                  "neighbor_momentum", "compute_overview_metrics", "layout",
                  "build_group_signals", "graph_context">>
TooFewPoints == point_count < 2 \/ req.neighbors >= point_count

\* C5: when the neighbor count k is >= the number N of candidates (or N < 2) the
\* request is rejected with a 400 at the point-count checks: no graph step has run
\* in that attempt or runs afterwards, the attempt counter is not advanced, the
\* rejection is final and no write-back is scheduled.
C5_NeighborsGeCountRejected ==
  /\ [](\A st \in GraphSteps : st \in Range(called) => ~TooFewPoints)
  /\ [][ (pc = "checks" /\ TooFewPoints) =>
           /\ pc' = "failed"
           /\ response'.cls = "HTTPException" /\ response'.status = 400
           /\ attempts' = attempts
           /\ scheduled' = 0 /\ bg_pc' = "idle"
           /\ Range(called') \cap GraphSteps = {} ]_vars
  /\ [][ pc = "failed" => UNCHANGED vars ]_vars

\* C5 witness: a request rejected for k >= N on a retry (an earlier attempt failed)
C5_Witness ==
  /\ pc = "failed" /\ attempts > 0 /\ point_count >= 2 /\ req.neighbors >= point_count
  /\ response = HTTPException(400, "neighbors must be less than the number of embeddings")

\* C7: when both candidate queries return no row, load_embeddings raises the
\* 400 "No embeddings match the filters." and the request ends with it on that
\* attempt: attempts is not advanced, no later step runs, nothing is scheduled.
C7_NoEmbeddingsAborts ==
  /\ [](fetched = <<0, 0>> =>
          /\ pc = "failed"
          /\ response = HTTPException(400, DETAIL_NO_EMBEDDINGS)
          /\ called = <<>> /\ scheduled = 0 /\ bg_pc = "idle")
  /\ [][ (pc = "load_embeddings" /\ fetched' = <<0, 0>>) =>
           (attempts' = attempts /\ current_pool' = current_pool) ]_vars
  /\ [][ pc = "failed" => UNCHANGED vars ]_vars

\* C7 witness: the abort on a retry
C7_Witness ==
  /\ fetched = <<0, 0>> /\ attempts > 0 /\ pc = "failed"
  /\ response = HTTPException(400, DETAIL_NO_EMBEDDINGS)

\* C8: the block is entered with fewer than 5 failures behind it; a step that
\* advances attempts advances it by one, for a recoverable operational error,
\* and installs a fresh pool in place of the closed one; success leaves the loop
\* with that attempt's pool and steps; the 503 is raised exactly after the 5th
\* recoverable failure; every other error ends the request where it occurs.
C8_BoundedRetry ==
  /\ [](/\ attempts <= _MAX_DB_RETRIES
        /\ (pc \in InBlock => attempts < _MAX_DB_RETRIES)
        /\ (response = HTTPException(503, DETAIL_RETRY) =>
               attempts = _MAX_DB_RETRIES /\ pc = "failed")
        /\ (pc = "loop" /\ attempts > 0 => last_error = OperationalError(TRUE))
        /\ (response.cls \in {"OperationalError", "UndefinedTable", "InsufficientPrivilege"}
               => pc = "failed" /\ ~response.recoverable))
  /\ [][ attempts' # attempts /\ pc # "validate" =>
           /\ attempts' = attempts + 1
           /\ pc \in InBlock /\ pc' = "loop"
           /\ last_error' = OperationalError(TRUE)
           /\ current_pool \in closed' /\ current_pool' \notin closed'
           /\ current_pool' = _pool' ]_vars
  /\ [][ (pc = "loop" /\ attempts = _MAX_DB_RETRIES) =>
           (pc' = "failed" /\ response' = HTTPException(503, DETAIL_RETRY)) ]_vars
  /\ [][ (pc \in InBlock /\ pc' = "layout") =>
           (attempts' = attempts /\ pool' = current_pool /\ response' = NoExc) ]_vars
  /\ [][ (pc \in InBlock /\ pc' = "failed") =>
           (attempts' = attempts /\ response'.cls # "none" /\ response'.status # 503) ]_vars
  /\ [][ pc = "failed" => UNCHANGED vars ]_vars

\* C8 witness: the 503 after five recoverable failures
C8_Witness ==
  /\ pc = "failed" /\ attempts = _MAX_DB_RETRIES
  /\ response = HTTPException(503, DETAIL_RETRY) /\ Cardinality(closed) = _MAX_DB_RETRIES

\* C9: add_task is called at most once, only when every step from candidate
\* loading to the graph context has completed in the successful attempt, and a
\* request that failed has scheduled nothing.
C9_WriteBackOnlyAfterPipeline ==
  /\ scheduled <= 1
  /\ (scheduled = 1 => called = FullPipeline /\ pc \in {"respond", "done"})
  /\ (pc = "failed" => scheduled = 0 /\ bg_pc = "idle")
  /\ (bg_pc # "idle" => scheduled = 1 /\ pc = "done")

\* C9 witness: a request answered after a retry, its write-back scheduled
C9_Witness == pc = "done" /\ scheduled = 1 /\ attempts > 0 /\ response.status = 200

\* an attempt that _persist_background never repeats
NotRetried(exc) ==
  exc # NoExc /\ ~(exc.cls = "OperationalError" /\ is_recoverable_operational_error(exc))

\* C10: once an attempt of the write-back has failed with a non-recoverable
\* operational error or a non-operational exception, that attempt is the last
\* one and the task has returned normally; the task never ends by raising.
C10_PersistFatalReturns ==
  /\ bg_pc # "raised"
  /\ \A i \in DOMAIN bg_history :
       NotRetried(bg_history[i]) => (i = Len(bg_history) /\ bg_pc = "returned")

\* C10 witness: a fatal failure on an attempt made after a pool reset
C10_Witness ==
  /\ bg_pc = "returned" /\ Len(bg_history) >= 2
  /\ bg_history[Len(bg_history)] = OperationalError(FALSE)
  /\ bg_current_pool # pool /\ pool \in closed

(***************************************************************************)
(* The pure functions on their own: pc is "call" before and "return" after *)
(***************************************************************************)
\* no request and no write-back in flight
NoRequest ==
  /\ _DB_URL = TRUE /\ _pool = None /\ created = 0 /\ closed = {}
  /\ req = None /\ attempts = 0 /\ last_error = NoExc /\ current_pool = None
  /\ pool = None /\ fetched = <<>> /\ point_count = 0 /\ called = <<>>
  /\ scheduled = 0 /\ response = NoExc
  /\ PersistIdle

Return(value) ==
  /\ pc = "call"
  /\ pc' = "return"
  /\ result' = value
  /\ UNCHANGED <<args, poolVars, req, attempts, last_error, current_pool, pool, fetched,
                 point_count, called, scheduled, response, bgVars>>

SeqsUpTo(S, n) == UNION { [1..k -> S] : k \in 0..n }

(***************************************************************************)
(* SpecLoad: load_embeddings over arbitrary query results                  *)
(***************************************************************************)
PubIds == {1, 2, 3}
\* the stored embedding of a publication (one dimension; publication 2 has norm 0)
EmbeddingOf(pub_id) == pub_id - 2
FocusRows == { [pub_id |-> i, is_focus |-> TRUE, embedding |-> EmbeddingOf(i)] : i \in PubIds }
FallbackRows(has_focus_filters) ==
  { [pub_id |-> i, is_focus |-> f, embedding |-> EmbeddingOf(i)] :
      i \in PubIds, f \in (IF has_focus_filters THEN BOOLEAN ELSE {FALSE}) }

InitLoad ==
  /\ NoRequest /\ pc = "call" /\ result = <<>>
  /\ \E limit \in 1..(MaxRows + 1), has_focus_filters \in BOOLEAN :
       \E focus_rows \in (IF has_focus_filters THEN SeqsUpTo(FocusRows, MaxRows) ELSE {<<>>}),
          fallback_rows \in SeqsUpTo(FallbackRows(has_focus_filters), MaxRows) :
         args = [limit |-> limit, has_focus_filters |-> has_focus_filters,
                 focus_rows |-> focus_rows, fallback_rows |-> fallback_rows]

CallLoadEmbeddings ==
  Return(load_embeddings(args.limit, args.has_focus_filters, args.focus_rows,
                         args.fallback_rows))

NextLoad == CallLoadEmbeddings
SpecLoad == InitLoad /\ [][NextLoad]_vars

\* C6: load_embeddings returns at most min(limit, 2000) candidates, their ids are
\* pairwise distinct, and X has exactly one row per metadata record.
C6_LoadBoundedDistinct ==
  (pc = "return" /\ result.exc = NoExc) =>
     /\ Len(result.meta) <= Min(args.limit, MAX_GRAPH_LIMIT)
     /\ \A i, j \in DOMAIN result.meta :
          result.meta[i].pub_id = result.meta[j].pub_id => i = j
     /\ Len(result.X) = Len(result.meta)
     /\ Len(result.meta) >= 1

\* C6 witness: an id repeated inside the focus rows and again in the fallback
\* rows, with the fallback query still contributing a candidate
C6_Witness ==
  /\ pc = "return" /\ result.exc = NoExc
  /\ Len(args.focus_rows) = 2 /\ args.focus_rows[1].pub_id = args.focus_rows[2].pub_id
  /\ Len(args.fallback_rows) = 2
  /\ args.fallback_rows[1].pub_id = args.focus_rows[1].pub_id
  /\ Len(result.meta) = 2 /\ args.limit = 2

(***************************************************************************)
(* Similarity Graph Builder and Community Detector                         *)
(* Nodes are 0..n-1 as in the code; idx[i] and dist[i] are sequences of    *)
(* length k (positions 1..k for jpos 0..k-1); distances are in SCALE units.*)
(***************************************************************************)
\* largest number of nodes of a graph handed to cluster_labels
NumNodes == 3
\* the cosine distances two distinct candidates can be at
DistValues == {0, SCALE \div 4, SCALE \div 2}
sim_thresh == 7500

NodesOf(n) == 0..(n - 1)
PairsOf(n) == { <<i, j>> \in NodesOf(n) \X NodesOf(n) : i < j }
\* cosine distance of two candidates, from the distances of the unordered pairs
PairDist(D, i, j) == IF i = j THEN 0 ELSE IF i < j THEN D[<<i, j>>] ELSE D[<<j, i>>]

\* build_knn: the rows kneighbors(X) may return for node i: k distinct nodes,
\* nearest first, no omitted node nearer than the last one kept; ties in any order
KnnRows(D, n, i, k) ==
  { r \in [1..k -> NodesOf(n)] :
      /\ \A p, q \in 1..k : r[p] = r[q] => p = q
      /\ \A p, q \in 1..k : p < q => PairDist(D, i, r[p]) <= PairDist(D, i, r[q])
      /\ \A m \in NodesOf(n) \ Range(r) : PairDist(D, i, m) >= PairDist(D, i, r[k]) }
build_knn_idx(D, n, k) ==
  { idx \in [NodesOf(n) -> [1..k -> NodesOf(n)]] : \A i \in NodesOf(n) : idx[i] \in KnnRows(D, n, i, k) }
build_knn_dist(D, n, k, idx) ==
  [i \in NodesOf(n) |-> [p \in 1..k |-> PairDist(D, i, idx[i][p])]]

\* find(a) with path halving: the root of a and the parent array it leaves
RECURSIVE find(_, _)
find(parent, a) ==
  IF parent[a] = a THEN [parent |-> parent, root |-> a]
  ELSE LET halved == [parent EXCEPT ![a] = parent[parent[a]]]
       IN find(halved, halved[a])

union(parent, a, b) ==
  LET fa == find(parent, a)
      fb == find(fa.parent, b)
  IN IF fa.root # fb.root THEN [fb.parent EXCEPT ![fb.root] = fa.root] ELSE fb.parent

\* the double loop joining every listed neighbour, whatever its similarity
RECURSIVE union_edges_unthresholded(_, _, _, _, _, _)
union_edges_unthresholded(parent, dist, idx, n, i, jpos) ==
  IF i >= n THEN parent
  ELSE IF jpos > Len(idx[i]) THEN union_edges_unthresholded(parent, dist, idx, n, i + 1, 1)
  ELSE LET j == idx[i][jpos]
           joined == IF i # j THEN union(parent, i, j) ELSE parent
       IN union_edges_unthresholded(joined, dist, idx, n, i, jpos + 1)

\* the double loop of lines 1230-1235, from row i, position jpos on
RECURSIVE union_edges(_, _, _, _, _, _)
union_edges(parent, dist, idx, n, i, jpos) ==
  IF i >= n THEN parent
  ELSE IF jpos > Len(idx[i]) THEN union_edges(parent, dist, idx, n, i + 1, 1)
  ELSE LET j == idx[i][jpos]
           joined == IF i # j /\ SCALE - dist[i][jpos] >= sim_thresh
                     THEN union(parent, i, j) ELSE parent
       IN union_edges(joined, dist, idx, n, i, jpos + 1)

\* [find(i) for i in range(n)], each find working on the array the last one left
RECURSIVE find_all(_, _, _, _)
find_all(parent, n, i, acc) ==
  IF i >= n THEN acc
  ELSE LET f == find(parent, i) IN find_all(f.parent, n, i + 1, Append(acc, f.root))

\* the edge list with an edge for every row entry other than the node itself
RECURSIVE leiden_edges_every_entry(_, _, _, _, _)
leiden_edges_every_entry(dist, idx, n, i, jpos) ==
  IF i >= n THEN <<>>
  ELSE IF jpos > Len(idx[i]) THEN leiden_edges_every_entry(dist, idx, n, i + 1, 1)
  ELSE LET j == idx[i][jpos]
           rest == leiden_edges_every_entry(dist, idx, n, i, jpos + 1)
       IN IF i # j
          THEN <<[edge |-> <<i, j>>, weight |-> SCALE - dist[i][jpos]]>> \o rest
          ELSE rest

\* the edge list cluster_labels hands to igraph: (i, j, weight) for i < j
RECURSIVE leiden_edges(_, _, _, _, _)
leiden_edges(dist, idx, n, i, jpos) ==
  IF i >= n THEN <<>>
  ELSE IF jpos > Len(idx[i]) THEN leiden_edges(dist, idx, n, i + 1, 1)
  ELSE LET j == idx[i][jpos]
           rest == leiden_edges(dist, idx, n, i, jpos + 1)
       IN IF i # j /\ i < j
          THEN <<[edge |-> <<i, j>>, weight |-> SCALE - dist[i][jpos]]>> \o rest
          ELSE rest

\* part.membership of leidenalg: a community id per vertex, numbered from 0
find_partition(n) ==
  { m \in [NodesOf(n) -> NodesOf(n)] :
      \A c \in NodesOf(n) : (\E v \in NodesOf(n) : m[v] = c) =>
                              \A b \in 0..c : \E v \in NodesOf(n) : m[v] = b }

\* the union-find path returning each node's root index as its label
cluster_labels_root_ids(dist, idx, have_leiden, membership) ==
  LET n == Cardinality(DOMAIN dist) IN
  IF have_leiden THEN membership
  ELSE LET parent == union_edges([a \in NodesOf(n) |-> a], dist, idx, n, 0, 1)
           found == find_all(parent, n, 0, <<>>)
       IN [i \in NodesOf(n) |-> found[i + 1]]

\* cluster_labels(dist, idx, resolution); membership is what find_partition returns
cluster_labels(dist, idx, have_leiden, membership) ==
  LET n == Cardinality(DOMAIN dist) IN
  IF have_leiden THEN membership
  ELSE LET parent == union_edges([a \in NodesOf(n) |-> a], dist, idx, n, 0, 1)
           found == find_all(parent, n, 0, <<>>)
           roots == Range(found)
           m == [r \in roots |-> Cardinality({x \in roots : x < r})]
       IN [i \in NodesOf(n) |-> m[found[i + 1]]]

InitCluster ==
  /\ NoRequest /\ pc = "call" /\ result = <<>>
  /\ \E n \in 1..NumNodes : \E k \in 1..n : \E D \in [PairsOf(n) -> DistValues] :
       \E idx \in build_knn_idx(D, n, k) : \E have_leiden \in BOOLEAN :
         args = [n |-> n, k |-> k, D |-> D, idx |-> idx,
                 dist |-> build_knn_dist(D, n, k, idx), have_leiden |-> have_leiden]

CallClusterLabels ==
  \E membership \in (IF args.have_leiden THEN find_partition(args.n)
                     ELSE {[v \in NodesOf(args.n) |-> 0]}) :
    Return(cluster_labels(args.dist, args.idx, args.have_leiden, membership))

NextCluster == CallClusterLabels
SpecCluster == InitCluster /\ [][NextCluster]_vars

IdsUsed(lbl) == { lbl[i] : i \in DOMAIN lbl }

\* C3: cluster_labels gives every node exactly one cluster id and the ids used
\* are exactly 0..K-1 for some K >= 1.
C3_ClusterLabelsContiguous ==
  pc = "return" =>
    /\ DOMAIN result = NodesOf(args.n)
    /\ \A i \in NodesOf(args.n) : result[i] \in Int
    /\ Cardinality(IdsUsed(result)) >= 1
    /\ IdsUsed(result) = 0..(Cardinality(IdsUsed(result)) - 1)

\* C3 witness: the union-find path with a merge into a lower root, leaving a
\* component whose root index is not its cluster id
C3_Witness ==
  /\ pc = "return" /\ ~args.have_leiden /\ args.n = 3
  /\ result[0] = 0 /\ result[1] = 0 /\ result[2] = 1

(***************************************************************************)
(* Dates: request texts, integer YYYYMMDD columns and calendar dates       *)
(* A calendar date is its day number, day 1 being 2023-01-01.              *)
(***************************************************************************)
\* A date text of a request is [given, y, m, d, padded]: "y-m-d" with month and
\* day written in two digits when padded, absent when not given.
NoDateText == [given |-> FALSE, y |-> 0, m |-> 0, d |-> 0, padded |-> TRUE]
DateText(y, m, d, padded) == [given |-> TRUE, y |-> y, m |-> m, d |-> d, padded |-> padded]

DaysInMonth(y, m) ==
  IF m = 2 THEN (IF (y % 4 = 0 /\ y % 100 # 0) \/ y % 400 = 0 THEN 29 ELSE 28)
  ELSE IF m \in {4, 6, 9, 11} THEN 30 ELSE 31

RECURSIVE DaysBefore(_, _)
DaysBefore(y, m) == IF m <= 1 THEN 0 ELSE DaysBefore(y, m - 1) + DaysInMonth(y, m - 1)

RECURSIVE YearStart(_)
YearStart(y) == IF y <= 2023 THEN 0 ELSE YearStart(y - 1) + DaysBefore(y - 1, 13)

\* date(y, m, d): its day number, or None where date() raises ValueError
date(y, m, d) ==
  IF y >= 2023 /\ m \in 1..12 /\ d >= 1 /\ d <= DaysInMonth(y, m)
  THEN YearStart(y) + DaysBefore(y, m) + d
  ELSE None

\* number of digits int(f"{y}{m}{d}") gives to a part written without padding
Shift(x) == IF x < 10 THEN 10 ELSE 100

\* _to_int_date(s): s.split("-") glued and read as an integer
_to_int_date(s) ==
  IF ~s.given THEN None
  ELSE IF s.padded THEN s.y * 10000 + s.m * 100 + s.d
  ELSE (s.y * Shift(s.m) + s.m) * Shift(s.d) + s.d

\* _from_int_date(value): the date of an integer YYYYMMDD, None if it is no date
_from_int_date(value) ==
  IF value = None THEN None
  ELSE date(value \div 10000, (value \div 100) % 100, value % 100)

(***************************************************************************)
(* Momentum Engine: neighbor_momentum                                      *)
(* patent.pub_date is an integer YYYYMMDD or NULL (None); raw sums are in  *)
(* quarters (+1.0 is 4, -0.25 is -1); momentum is in SCALE units.          *)
(***************************************************************************)
PubDates == {20240110, 20240105, 20231201}
CUTOFF_OFFSET == 90

SetMax(S) == CHOOSE x \in S : \A y \in S : y <= x

\* cutoff AS (SELECT (MAX(pub_date) - 90) AS c FROM d): NULL when d has no date
momentum_cutoff(pub_dates, d) ==
  LET dated == { pub_dates[i] : i \in { v \in d : pub_dates[v] # None } }
  IN IF dated = {} THEN None ELSE SetMax(dated) - CUTOFF_OFFSET

\* the comparison made on calendar dates, 90 days back from the latest
is_recent_calendar(pub_date, c) ==
  /\ pub_date # None /\ c # None
  /\ _from_int_date(pub_date) >= _from_int_date(c + CUTOFF_OFFSET) - CUTOFF_OFFSET

\* CASE WHEN pub_date >= c: a comparison with NULL is not true
is_recent(pub_date, c) == pub_date # None /\ c # None /\ pub_date >= c

\* SUM(CASE ... THEN 1.0 ELSE -0.25 END) without the GREATEST(0.0, ...) floor
cluster_raw_no_floor(recent, other) == 4 * recent - other

\* GREATEST(0.0, SUM(CASE WHEN pub_date >= c THEN 1.0 ELSE -0.25 END)), in quarters
cluster_raw(recent, other) == Max(0, 4 * recent - other)

\* neighbor_momentum(conn, pub_ids, labels): present are the nodes whose patent
\* row the join finds.  Result: the array, its maximum before normalising, and
\* whether arr /= mmax was executed.
neighbor_momentum(pub_dates, labels, present) ==
  LET d == present
      c == momentum_cutoff(pub_dates, d)
      cids == { labels[i] : i \in d }
      m == [cid \in cids |->
              LET members == { i \in d : labels[i] = cid }
                  recent == Cardinality({ i \in members : is_recent(pub_dates[i], c) })
              IN cluster_raw(recent, Cardinality(members) - recent)]
  IN IF cids = {}
     THEN [arr |-> [cid \in 0..SetMax(IdsUsed(labels)) |-> 0], mmax |-> 0, divided |-> FALSE]
     ELSE LET max_cid == SetMax(cids)
              arr == [cid \in 0..max_cid |-> IF cid \in cids THEN m[cid] ELSE 0]
              mmax == SetMax({ arr[cid] : cid \in 0..max_cid })
          IN IF mmax > 0
             THEN [arr |-> [cid \in 0..max_cid |-> (arr[cid] * SCALE) \div mmax],
                   mmax |-> mmax, divided |-> TRUE]
             ELSE [arr |-> arr, mmax |-> mmax, divided |-> FALSE]

InitMomentum ==
  /\ NoRequest /\ pc = "call" /\ result = <<>>
  /\ \E n \in 1..NumNodes : \E labels \in find_partition(n) :
       \E pub_dates \in [NodesOf(n) -> PubDates \cup {None}] :
         \E present \in SUBSET NodesOf(n) :
           args = [n |-> n, labels |-> labels, pub_dates |-> pub_dates, present |-> present]

CallNeighborMomentum == Return(neighbor_momentum(args.pub_dates, args.labels, args.present))

NextMomentum == CallNeighborMomentum
SpecMomentum == InitMomentum /\ [][NextMomentum]_vars

\* C2: every entry of the momentum array is in [0, 1]; when no cluster has a
\* positive floored raw score the array is all zeros and nothing was divided.
C2_MomentumBounds ==
  pc = "return" =>
    /\ \A cid \in DOMAIN result.arr : 0 <= result.arr[cid] /\ result.arr[cid] <= SCALE
    /\ (result.mmax = 0 <=> ~result.divided)
    /\ (result.mmax = 0 => \A cid \in DOMAIN result.arr : result.arr[cid] = 0)
    /\ (result.mmax > 0 => \E cid \in DOMAIN result.arr : result.arr[cid] = SCALE)

\* C2 witness: every row found, no date known: all raw sums negative, floored to 0
C2_Witness ==
  /\ pc = "return" /\ args.n = 3 /\ args.present = NodesOf(3)
  /\ \A i \in NodesOf(3) : args.pub_dates[i] = None
  /\ Cardinality(DOMAIN result.arr) = 2
  /\ result.mmax = 0 /\ ~result.divided /\ \A cid \in DOMAIN result.arr : result.arr[cid] = 0

(***************************************************************************)
(* Scorer: local_density and compute_overview_metrics                      *)
(* Embeddings are unit vectors of dimension 1 (-1 or 1); every real number *)
(* is held in SCALE units.                                                 *)
(***************************************************************************)
RECURSIVE SumOver(_, _)
SumOver(f, S) ==
  IF S = {} THEN 0 ELSE LET x == CHOOSE y \in S : TRUE IN f[x] + SumOver(f, S \ {x})

Clip(x, lo, hi) == Max(lo, Min(hi, x))

\* np.exp for x >= 0 by its power series: term is x^k / k!
ExpTerms == 24
RECURSIVE ExpSeries(_, _, _, _)
ExpSeries(x, k, term, acc) ==
  IF k > ExpTerms \/ term = 0 THEN acc
  ELSE LET next == (term * x) \div (k * SCALE) IN ExpSeries(x, k + 1, next, acc + next)

\* np.exp(x): exp(-x) is 1 / exp(x)
Exp(x) == IF x >= 0 THEN ExpSeries(x, 1, SCALE, SCALE)
          ELSE (SCALE * SCALE) \div ExpSeries(-x, 1, SCALE, SCALE)

\* metric="cosine" on unit vectors: 1 - x.y
CosineDist(X, n) == [p \in PairsOf(n) |-> SCALE - X[p[1]] * X[p[2]] * SCALE]

\* local_density(dist): (1.0 - dist).mean(axis=1)
local_density(dist) ==
  [i \in DOMAIN dist |->
     SumOver([p \in DOMAIN dist[i] |-> SCALE - dist[i][p]], DOMAIN dist[i]) \div Len(dist[i])]

\* compute_overview_metrics(X, labels, dens, focus_mask, alpha, beta, momentum)
compute_overview_metrics(X, labels, dens, focus_mask, alpha, beta, momentum) ==
  LET nodes == DOMAIN X
      N == Cardinality(nodes)
      focus == { i \in nodes : focus_mask[i] }
      any_focus == focus # {}
      Xs == [i \in nodes |-> X[i] * SCALE]
      F == IF any_focus THEN SumOver(Xs, focus) \div Cardinality(focus)
           ELSE SumOver(Xs, nodes) \div N
      alpha_eff == IF any_focus THEN alpha ELSE alpha \div 2
      d == [i \in nodes |-> Abs(Xs[i] - F)]
      proximity == [i \in nodes |-> Exp((-alpha_eff * d[i]) \div SCALE)]
      dmin == -SetMax({ -dens[i] : i \in nodes })
      dmax == SetMax({ dens[i] : i \in nodes })
      denom == IF dmax > dmin THEN dmax - dmin ELSE SCALE
      dens_n == [i \in nodes |-> ((dens[i] - dmin) * SCALE) \div denom]
      sparsity == [i \in nodes |-> Clip(SCALE - dens_n[i], 0, SCALE)]
      \* labels are never negative here; ids past the momentum array are padded with 0
      mom == [i \in nodes |->
                Clip(IF labels[i] \in DOMAIN momentum THEN momentum[labels[i]] ELSE 0, 0, SCALE)]
      penalty == [i \in nodes |-> Clip(SCALE - (beta * mom[i]) \div SCALE, 0, SCALE)]
      score == [i \in nodes |->
                  IF focus_mask[i] THEN 0
                  ELSE (((proximity[i] * sparsity[i]) \div SCALE) * penalty[i]) \div SCALE]
  IN IF ~(0 <= beta /\ beta <= SCALE)
     THEN [exc |-> OtherError("AssertionError"), score |-> <<>>, proximity |-> <<>>, distance |-> <<>>]
     ELSE [exc |-> NoExc, score |-> score, proximity |-> proximity, distance |-> d]

\* alpha and beta are plain floats of GraphRequest: nothing bounds them
AlphaValues == {-SCALE, 0, (8 * SCALE) \div 10}
BetaValues == {0, SCALE \div 2, 2 * SCALE}
MomentumArrays(labels) ==
  UNION { [0..m -> {0, SCALE}] : m \in 0..SetMax(IdsUsed(labels)) }

InitScore ==
  /\ NoRequest /\ pc = "call" /\ result = <<>>
  /\ \E n \in 2..NumNodes : \E neighbors \in 1..(n - 1) :
       \E X \in [NodesOf(n) -> {-1, 1}] : \E focus_mask \in [NodesOf(n) -> BOOLEAN] :
         \E labels \in find_partition(n) : \E momentum \in MomentumArrays(labels) :
           \E alpha \in AlphaValues : \E beta \in BetaValues :
             LET D == CosineDist(X, n)
                 idx == [i \in NodesOf(n) |-> CHOOSE r \in KnnRows(D, n, i, neighbors) : TRUE]
                 dist == build_knn_dist(D, n, neighbors, idx)
             IN args = [n |-> n, neighbors |-> neighbors, X |-> X, focus_mask |-> focus_mask,
                        labels |-> labels, dens |-> local_density(dist), momentum |-> momentum,
                        alpha |-> alpha, beta |-> beta]

CallComputeOverviewMetrics ==
  Return(compute_overview_metrics(args.X, args.labels, args.dens, args.focus_mask,
                                  args.alpha, args.beta, args.momentum))

NextScore == CallComputeOverviewMetrics
SpecScore == InitScore /\ [][NextScore]_vars

Scored == pc = "return" /\ result.exc = NoExc

\* C1 as stated: whatever alpha and beta the request carries, every returned
\* score is in [0, 1] and the score of a focus node is 0.
C1_ScoreBounds ==
  Scored => \A i \in NodesOf(args.n) :
              /\ 0 <= result.score[i] /\ result.score[i] <= SCALE
              /\ args.focus_mask[i] => result.score[i] = 0

\* C1, the part the code keeps: scores are never negative, focus nodes score 0,
\* and no score exceeds 1 when alpha is not negative.
C1_ScoreBoundsNonNegativeAlpha ==
  Scored => \A i \in NodesOf(args.n) :
              /\ 0 <= result.score[i]
              /\ args.focus_mask[i] => result.score[i] = 0
              /\ args.alpha >= 0 => result.score[i] <= SCALE

\* C1 witness: a request with the default-like alpha scoring a non-focus node
\* strictly between 0 and 1 beside a focus node scored 0
C1_Witness ==
  /\ Scored /\ args.alpha > 0
  /\ \E i, j \in NodesOf(args.n) :
       /\ args.focus_mask[i] /\ result.score[i] = 0
       /\ ~args.focus_mask[j] /\ 0 < result.score[j] /\ result.score[j] < SCALE

(***************************************************************************)
(* Signals: _window_bounds and build_group_signals                         *)
(* A date is its day number, day 1 being 2023-01-01; None is no date.      *)
(* Confidences are in SCALE units.                                         *)
(***************************************************************************)
SIGNAL_ORDER == <<"emerging_gap", "bridge", "crowd_out", "focus_shift">>
NOT_ENOUGH_HISTORY == "Not enough history for this scope."

\* datetime.strptime(value, "%Y-%m-%d").date(): padding is optional; None for
\* an absent text and for a text that is no date
_parse_date_str(value) ==
  IF ~value.given THEN None ELSE date(value.y, value.m, value.d)

\* the WHERE clause of load_embeddings on p.pub_date (an integer or NULL)
date_filter(r, pub_date) ==
  /\ _to_int_date(r.date_from) # None => pub_date # None /\ pub_date >= _to_int_date(r.date_from)
  /\ _to_int_date(r.date_to) # None => pub_date # None /\ pub_date < _to_int_date(r.date_to)

\* first days of the months of 2023 and of early 2024
MonthStarts == {1, 32, 60, 91, 121, 152, 182, 213, 244, 274, 305, 335, 366, 397, 426}
_month_floor(d) == SetMax({ s \in MonthStarts : s <= d })

SignalComputation(ok, confidence, message) ==
  [ok |-> ok, confidence |-> confidence, message |-> message]

\* status() without the "confidence <= 0" test of line 30
status_ok_only(c) ==
  IF ~c.ok THEN "none"
  ELSE IF c.confidence >= (66 * SCALE) \div 100 THEN "strong"
  ELSE IF c.confidence >= (33 * SCALE) \div 100 THEN "medium"
  ELSE "weak"

\* SignalComputation.status(): thresholds 0.33 and 0.66
status(c) ==
  IF ~c.ok \/ c.confidence <= 0 THEN "none"
  ELSE IF c.confidence >= (66 * SCALE) \div 100 THEN "strong"
  ELSE IF c.confidence >= (33 * SCALE) \div 100 THEN "medium"
  ELSE "weak"

SignalPayload(type, st, confidence, why, node_ids) ==
  [type |-> type, status |-> st, confidence |-> confidence, why |-> why, node_ids |-> node_ids]

PubDatesOf(nodes) == { n.pub_date : n \in { m \in nodes : m.pub_date # None } }

\* end_date anchored at the request's end date whenever it parses
window_end_at_request(r, nodes) ==
  LET latest == SetMax(PubDatesOf(nodes))
      req_end == _parse_date_str(r.date_to)
  IN IF req_end # None THEN req_end ELSE latest

\* end_date of _window_bounds, for a group with a dated member
window_end(r, nodes) ==
  LET latest == SetMax(PubDatesOf(nodes))
      req_end == _parse_date_str(r.date_to)
  IN IF req_end # None THEN Min(latest, req_end) ELSE latest

\* start_date as end_date - span_days, without the max(req_start, base_start) of
\* line 1557
window_start_span_only(r, nodes) ==
  LET end_date == window_end(r, nodes)
      earliest == -SetMax({ -x : x \in PubDatesOf(nodes) })
      req_start == _parse_date_str(r.date_from)
      start_date ==
        IF req_start # None /\ req_start <= end_date
        THEN LET span == end_date - req_start
                 span_days == IF span > 0 THEN Min(Max(span, 180), 365) ELSE 365
             IN end_date - span_days
        ELSE end_date - 365
  IN IF start_date < earliest THEN earliest ELSE start_date

\* start_date of _window_bounds after both clamps, for a group with a dated member
window_start(r, nodes) ==
  LET end_date == window_end(r, nodes)
      earliest == -SetMax({ -x : x \in PubDatesOf(nodes) })
      req_start == _parse_date_str(r.date_from)
      start_date ==
        IF req_start # None /\ req_start <= end_date
        THEN LET span == end_date - req_start
                 span_days == IF span > 0 THEN Min(Max(span, 180), 365) ELSE 365
             IN Max(req_start, end_date - span_days)
        ELSE end_date - 365
  IN IF start_date < earliest THEN earliest ELSE start_date

\* _window_bounds accepting any window of at least 30 days
_window_bounds_min_30(r, nodes) ==
  IF PubDatesOf(nodes) = {} THEN <<None, None>>
  ELSE IF window_end(r, nodes) - window_start(r, nodes) < 30 THEN <<None, None>>
  ELSE <<window_start(r, nodes), window_end(r, nodes)>>

_window_bounds(r, nodes) ==
  IF PubDatesOf(nodes) = {} THEN <<None, None>>
  ELSE IF window_end(r, nodes) - window_start(r, nodes) < 60 THEN <<None, None>>
  ELSE <<window_start(r, nodes), window_end(r, nodes)>>

\* data_by_group[key]; a NodeDatum is [index, pub_id, group, pub_date], group being
\* the assignee or the cluster id according to group_mode
NodesOfGroup(node_data, key) ==
  { node_data[i] : i \in { j \in DOMAIN node_data : node_data[j].group = key } }
PubIdsOf(nodes) == { n.pub_id : n \in nodes }

\* the decimal digits of a cluster id, as f"Cluster {id}" prints them
RECURSIVE Digits(_)
Digits(v) == IF v < 10 THEN <<v>> ELSE Append(Digits(v \div 10), v % 10)

\* str < str on two sequences of character codes
RECURSIVE StrLess(_, _)
StrLess(a, b) ==
  IF b = <<>> THEN FALSE
  ELSE IF a = <<>> THEN TRUE
  ELSE IF Head(a) # Head(b) THEN Head(a) < Head(b)
  ELSE StrLess(Tail(a), Tail(b))

\* label_text.lower(): an assignee key stands for a name in one of two
\* capitalisations (key = 2 * name + capitalisation), which lower() folds; a
\* cluster label is "Cluster {id}", whose varying part is the digits of the id
label_lower(group_mode, key) ==
  IF group_mode = "cluster" THEN Digits(key) ELSE <<key \div 2>>

\* the position at which a key enters data_by_group (dict insertion order)
first_seen(node_data, key) ==
  CHOOSE i \in DOMAIN node_data :
    /\ node_data[i].group = key
    /\ \A j \in DOMAIN node_data : node_data[j].group = key => i <= j

\* _sort_key(k) < _sort_key(o), or equal keys with k met first (sorted is stable)
sorts_before(node_data, group_mode, k, o) ==
  LET nk == Cardinality(NodesOfGroup(node_data, k))
      no == Cardinality(NodesOfGroup(node_data, o))
      lk == label_lower(group_mode, k)
      lo == label_lower(group_mode, o)
  IN \/ nk > no
     \/ nk = no /\ StrLess(lk, lo)
     \/ nk = no /\ lk = lo /\ first_seen(node_data, k) < first_seen(node_data, o)

\* sorted(data_by_group.keys(), key=_sort_key): larger groups first, then by label
RECURSIVE sorted_groups(_, _, _)
sorted_groups(node_data, group_mode, keys) ==
  IF keys = {} THEN <<>>
  ELSE LET first == CHOOSE k \in keys :
                      \A o \in keys \ {k} : sorts_before(node_data, group_mode, k, o)
       IN <<first>> \o sorted_groups(node_data, group_mode, keys \ {first})

\* the two limits exchanged
group_limit_exchanged(group_mode) == IF group_mode = "cluster" THEN 5 ELSE 6

group_limit(group_mode) == IF group_mode = "cluster" THEN 6 ELSE 5

\* ordered_groups after the cut to group_limit
ordered_groups(node_data, group_mode) ==
  Take(sorted_groups(node_data, group_mode,
                     { node_data[i].group : i \in DOMAIN node_data }),
       group_limit(group_mode))

\* _payload attributing its nodes only when the signal has a status
_payload_active_only(loc, kind, res, node_ids) ==
  LET conf == Clip(res.confidence, 0, SCALE)
      listed == IF status(res) = "none" THEN {} ELSE node_ids
      current_conf(nid) == IF nid \in DOMAIN loc.node_relevance THEN loc.node_relevance[nid] ELSE 0
      retold == { nid \in listed : conf >= current_conf(nid) }
  IN [loc EXCEPT
        !.signals = Append(@, SignalPayload(kind, status(res), conf, res.message, node_ids)),
        !.node_signals = [nid \in DOMAIN @ |-> IF nid \in listed THEN @[nid] \cup {kind} ELSE @[nid]],
        !.node_tooltips = [nid \in DOMAIN @ \cup retold |->
                             IF nid \in retold THEN <<kind, res.message>> ELSE @[nid]],
        !.node_relevance = [nid \in DOMAIN @ \cup listed |->
                              IF nid \in listed THEN Max(current_conf(nid), conf) ELSE @[nid]]]

\* _payload with "conf > current_conf" in place of the >= of line 1827
_payload_first_kept(loc, kind, res, node_ids) ==
  LET conf == Clip(res.confidence, 0, SCALE)
      current_conf(nid) == IF nid \in DOMAIN loc.node_relevance THEN loc.node_relevance[nid] ELSE 0
      retold == { nid \in node_ids : conf > current_conf(nid) \/ nid \notin DOMAIN loc.node_tooltips }
  IN [loc EXCEPT
        !.signals = Append(@, SignalPayload(kind, status(res), conf, res.message, node_ids)),
        !.node_signals = [nid \in DOMAIN @ |-> IF nid \in node_ids THEN @[nid] \cup {kind} ELSE @[nid]],
        !.node_tooltips = [nid \in DOMAIN @ \cup retold |->
                             IF nid \in retold THEN <<kind, res.message>> ELSE @[nid]],
        !.node_relevance = [nid \in DOMAIN @ \cup node_ids |->
                              IF nid \in node_ids THEN Max(current_conf(nid), conf) ELSE @[nid]]]

\* _payload(kind, result, node_ids): the payload is appended to signals and every
\* listed node gets the tag, the larger relevance and, on >=, the tooltip
_payload(loc, kind, res, node_ids) ==
  LET conf == Clip(res.confidence, 0, SCALE)
      current_conf(nid) == IF nid \in DOMAIN loc.node_relevance THEN loc.node_relevance[nid] ELSE 0
      retold == { nid \in node_ids : conf >= current_conf(nid) }
  IN [loc EXCEPT
        !.signals = Append(@, SignalPayload(kind, status(res), conf, res.message, node_ids)),
        !.node_signals = [nid \in DOMAIN @ |-> IF nid \in node_ids THEN @[nid] \cup {kind} ELSE @[nid]],
        !.node_tooltips = [nid \in DOMAIN @ \cup retold |->
                             IF nid \in retold THEN <<kind, res.message>> ELSE @[nid]],
        !.node_relevance = [nid \in DOMAIN @ \cup node_ids |->
                              IF nid \in node_ids THEN Max(current_conf(nid), conf) ELSE @[nid]]]

\* AssigneeSignals(...) appended to group_payloads; the loop moves to the next group
append_group(loc, key, signals) ==
  [loc EXCEPT !.group_payloads = Append(@, [assignee |-> key, signals |-> signals]),
              !.signals = <<>>,
              !.remaining = Tail(@)]

FnUnchanged == UNCHANGED <<args, poolVars, req, attempts, last_error, current_pool, pool,
                           fetched, point_count, called, scheduled, response, bgVars>>

\* lines 1652-1716: grouping, ordering and the empty accumulators
CallBuildGroupSignals ==
  /\ pc = "call"
  /\ pc' = "groups"
  /\ result' = [ordered_groups |-> ordered_groups(args.node_data, args.group_mode),
                remaining |-> ordered_groups(args.node_data, args.group_mode),
                group_payloads |-> <<>>, signals |-> <<>>,
                node_signals |-> [nid \in PubIdsOf(Range(args.node_data)) |-> {}],
                node_relevance |-> <<>>, node_tooltips |-> <<>>]
  /\ FnUnchanged

\* the group without a window, its signals listed in the order of SignalKind
GroupInsufficientKindOrder ==
  /\ pc = "groups" /\ result.remaining # <<>>
  /\ LET key == Head(result.remaining)
         none_result == SignalComputation(FALSE, 0, NOT_ENOUGH_HISTORY)
         none_payload(kind) == SignalPayload(kind, status(none_result), 0, none_result.message, {})
     IN /\ _window_bounds(args.req, NodesOfGroup(args.node_data, key)) = <<None, None>>
        /\ result' = append_group(result, key,
                       <<none_payload("focus_shift"), none_payload("emerging_gap"),
                         none_payload("crowd_out"), none_payload("bridge")>>)
  /\ pc' = pc
  /\ FnUnchanged

\* lines 1730-1752: no window, four empty signals, continue
GroupInsufficient ==
  /\ pc = "groups" /\ result.remaining # <<>>
  /\ LET key == Head(result.remaining)
         none_result == SignalComputation(FALSE, 0, NOT_ENOUGH_HISTORY)
         none_payload(kind) == SignalPayload(kind, status(none_result), 0, none_result.message, {})
     IN /\ _window_bounds(args.req, NodesOfGroup(args.node_data, key)) = <<None, None>>
        /\ result' = append_group(result, key,
                       <<none_payload("emerging_gap"), none_payload("bridge"),
                         none_payload("crowd_out"), none_payload("focus_shift")>>)
  /\ pc' = pc
  /\ FnUnchanged

\* the members of the group inside its window
window_nodes(r, nodes) ==
  LET w == _window_bounds(r, nodes)
  IN { n \in nodes : n.pub_date # None /\ w[1] <= n.pub_date /\ n.pub_date <= w[2] }

\* what a signal rule can return: inactive, or active with some confidence
SignalOutcomes == { SignalComputation(FALSE, 0, "inactive"),
                    SignalComputation(TRUE, SCALE \div 2, "active") }

\* signal_focus_shift: its early return, else whatever the slopes give
focus_shift_outcomes(n_buckets, n_samples) ==
  IF n_buckets < 3 \/ n_samples < 4
  THEN { SignalComputation(FALSE, 0, "Not enough recent filings to judge movement toward focus input(s).") }
  ELSE SignalOutcomes

\* signal_crowd_out: its early return, else whatever the slopes give
crowd_out_outcomes(n_buckets) ==
  IF n_buckets < 2
  THEN { SignalComputation(FALSE, 0, "Insufficient history to spot a crowd-out trend.") }
  ELSE SignalOutcomes

\* signal_bridge: ok needs inter_weight >= 0.5, so an interface node, and
\* openness = len(bridge_nodes) / cluster_total <= 0.35 with cluster_total at
\* most the size of the group
bridge_outcomes(bridge_node_ids, nodes) ==
  IF bridge_node_ids = {} \/ 100 * Cardinality(bridge_node_ids) > 35 * Cardinality(nodes)
  THEN { SignalComputation(FALSE, 0, "inactive") }
  ELSE SignalOutcomes

\* the sets _compute_bridge_inputs can return as interface nodes of a group: none
\* unless the group spans two clusters, which a cluster never does
BridgeNodeSets(group_mode, nodes) ==
  IF group_mode = "cluster" \/ Cardinality(nodes) < 2 THEN {{}} ELSE SUBSET PubIdsOf(nodes)

\* lines 1754-1872: a group with a window.  Without a member inside the window
\* the group is passed over (line 1756); otherwise the four rules are evaluated
\* and attributed in the order emerging_gap, bridge, crowd_out, focus_shift:
\* focus_shift lists the nodes of the latest month, crowd_out some of them,
\* emerging_gap some nodes of the group, bridge its interface nodes.
GroupSignals ==
  /\ pc = "groups" /\ result.remaining # <<>>
  /\ LET key == Head(result.remaining)
         nodes == NodesOfGroup(args.node_data, key)
         in_window == window_nodes(args.req, nodes)
     IN /\ _window_bounds(args.req, nodes) # <<None, None>>
        /\ IF in_window = {}
           THEN result' = [result EXCEPT !.remaining = Tail(@)]
           ELSE LET months == { _month_floor(n.pub_date) : n \in in_window }
                    latest_nodes == { n \in in_window : _month_floor(n.pub_date) = SetMax(months) }
                    n_buckets == Min(Cardinality(months), 12)
                IN \E emerging_node_ids \in SUBSET PubIdsOf(nodes) \ {{}} :
                   \E bridge_node_ids \in BridgeNodeSets(args.group_mode, nodes) :
                   \E crowd_node_ids \in SUBSET PubIdsOf(latest_nodes) \ {{}} :
                   \E emerging_result \in SignalOutcomes :
                   \E bridge_result \in bridge_outcomes(bridge_node_ids, nodes) :
                   \E crowd_result \in crowd_out_outcomes(n_buckets) :
                   \E focus_result \in focus_shift_outcomes(n_buckets, Cardinality(in_window)) :
                     LET p1 == _payload(result, "emerging_gap", emerging_result, emerging_node_ids)
                         p2 == _payload(p1, "bridge", bridge_result, bridge_node_ids)
                         p3 == _payload(p2, "crowd_out", crowd_result, crowd_node_ids)
                         p4 == _payload(p3, "focus_shift", focus_result, PubIdsOf(latest_nodes))
                     IN result' = append_group(p4, key, p4.signals)
  /\ pc' = pc
  /\ FnUnchanged

\* line 1874: return group_payloads, node_signals, node_relevance, node_tooltips
ReturnGroupSignals ==
  /\ pc = "groups" /\ result.remaining = <<>>
  /\ pc' = "return"
  /\ result' = result
  /\ FnUnchanged

\* the group list without the fallback and without the groups that lack history
response_groups_with_history(group_payloads, node_data) ==
  SelectSeq(group_payloads, LAMBDA g : \E i \in DOMAIN g.signals : g.signals[i].why # NOT_ENOUGH_HISTORY)

\* get_overview_graph, lines 2340-2359: the group list of the response, with one
\* synthetic group when build_group_signals returned none
response_groups(group_payloads, node_data) ==
  IF group_payloads = <<>> /\ DOMAIN node_data # {}
  THEN << [assignee |-> node_data[0].group,
           signals |-> [i \in 1..4 |-> SignalPayload(SIGNAL_ORDER[i], "none", 0,
                                                     "No signal detected for this scope.", {})]] >>
  ELSE group_payloads

\* get_overview_graph, lines 2340-2359
FallbackGroup ==
  /\ pc = "return"
  /\ pc' = "response"
  /\ result' = [assignees |-> response_groups(result.group_payloads, args.node_data)] @@ result
  /\ FnUnchanged

GroupKeys == {1, 2}
\* p.pub_date of the candidates: 2023-01-10, 2023-02-19, 2024-02-04, or NULL
StoredDates == {20230110, 20230219, 20240204}
\* date_from and date_to of the request: absent, or a range that holds every
\* stored date
SignalRequests == { [date_from |-> NoDateText, date_to |-> NoDateText],
                    [date_from |-> DateText(2023, 1, 10, TRUE), date_to |-> DateText(2024, 3, 1, TRUE)] }

\* cohorts with more groups than group_limit keeps: GroupCounts groups, met in a
\* rotated or reversed order, with at most one further node joining one of them;
\* cluster ids count from 0, assignee keys from 2, and no node is dated
GroupCounts == {6, 7, 11}
ManyGroups(group_mode) ==
  { [i \in NodesOf(n) |->
       (IF group_mode = "cluster" THEN 0 ELSE 2) +
       (IF i >= K THEN s ELSE ((IF rev THEN K - 1 - i ELSE i) + s) % K)] :
    <<K, n, s, rev>> \in { t \in GroupCounts \X (1..12) \X (0..10) \X BOOLEAN :
                            t[2] \in {t[1], t[1] + 1} /\ t[3] < t[1] } }

\* the candidates are rows that passed the date filter of the request
InitSignals ==
  /\ NoRequest /\ pc = "call" /\ result = <<>>
  /\ \/ \E n \in 1..NumNodes : \E group \in [NodesOf(n) -> GroupKeys] :
          \E r \in SignalRequests :
            \E pub_date \in [NodesOf(n) -> { v \in StoredDates \cup {None} : date_filter(r, v) }] :
              \E group_mode \in {"assignee", "cluster"} :
                args = [req |-> r, group_mode |-> group_mode,
                        node_data |-> [i \in NodesOf(n) |->
                                         [index |-> i, pub_id |-> i + 1, group |-> group[i],
                                          pub_date |-> _from_int_date(pub_date[i])]]]
     \/ \E group_mode \in {"assignee", "cluster"} : \E group \in ManyGroups(group_mode) :
          \E r \in { q \in SignalRequests : ~q.date_from.given /\ ~q.date_to.given } :
            args = [req |-> r, group_mode |-> group_mode,
                    node_data |-> [i \in DOMAIN group |->
                                     [index |-> i, pub_id |-> i + 1, group |-> group[i],
                                      pub_date |-> None]]]

NextSignals ==
  \/ CallBuildGroupSignals \/ GroupInsufficient \/ GroupSignals \/ ReturnGroupSignals
  \/ FallbackGroup
SpecSignals == InitSignals /\ [][NextSignals]_vars

\* a group without usable history: no dated member, or fewer than 60 days
\* between the clamped start and the end of its window
InsufficientHistory(key) ==
  LET nodes == NodesOfGroup(args.node_data, key)
  IN \/ PubDatesOf(nodes) = {}
     \/ window_end(args.req, nodes) - window_start(args.req, nodes) < 60

\* the retained groups the loop has already handled
HandledGroups ==
  IF pc \in {"groups", "return", "response"}
  THEN Range(result.ordered_groups) \ Range(result.remaining)
  ELSE {}

PayloadsOf(key) ==
  { i \in DOMAIN result.group_payloads : result.group_payloads[i].assignee = key }

\* C4: a retained group without a window gets one payload whose four signals, in
\* the fixed order, have status none, confidence 0, no nodes and the "Not enough
\* history" message, and none of its nodes gets a tag, a relevance or a tooltip.
C4_InsufficientHistoryAllNone ==
  \A key \in HandledGroups : InsufficientHistory(key) =>
    /\ Cardinality(PayloadsOf(key)) = 1
    /\ \A i \in PayloadsOf(key) :
         LET signals == result.group_payloads[i].signals
         IN /\ Len(signals) = 4
            /\ \A k \in 1..4 :
                 /\ signals[k].type = SIGNAL_ORDER[k]
                 /\ signals[k].status = "none"
                 /\ signals[k].confidence = 0
                 /\ signals[k].node_ids = {}
                 /\ signals[k].why = NOT_ENOUGH_HISTORY
    /\ \A nid \in PubIdsOf(NodesOfGroup(args.node_data, key)) :
         /\ result.node_signals[nid] = {}
         /\ nid \notin DOMAIN result.node_relevance
         /\ nid \notin DOMAIN result.node_tooltips

\* C4 witness: the call returned with a group of two dated members 40 days
\* apart, and so without a window, beside another group
C4_Witness ==
  /\ pc = "response"
  /\ \E key \in Range(result.ordered_groups) :
       /\ PubDatesOf(NodesOfGroup(args.node_data, key)) = {10, 50}
       /\ InsufficientHistory(key)
       /\ \E i \in PayloadsOf(key) : result.group_payloads[i].signals[1].why = NOT_ENOUGH_HISTORY
  /\ Len(result.group_payloads) = 2

(***************************************************************************)
(* Properties of the write-back task                                       *)
(***************************************************************************)
\* the task runs in a worker thread of its own: its steps are eventually taken
SpecPersistLive == Spec /\ WF_vars(PersistLoopTest) /\ WF_vars(PersistAttempt)

\* the attempts made so far that failed
PersistFailures == { i \in DOMAIN bg_history : bg_history[i] # NoExc }

PersistBounded ==
  /\ Len(bg_history) <= _MAX_DB_RETRIES
  /\ \A i \in DOMAIN bg_history : bg_history[i] = NoExc => i = Len(bg_history) /\ bg_pc = "returned"
  /\ bg_attempts = _MAX_DB_RETRIES => bg_pc \in {"loop", "returned"}
  /\ Len(bg_sleeps) = bg_attempts
  /\ \A n \in DOMAIN bg_sleeps :
       /\ bg_sleeps[n] = Min(n, 10)
       /\ bg_sleeps[n] <= 10
       /\ n > 1 => bg_sleeps[n - 1] <= bg_sleeps[n]

\* C11: _persist_background makes at most 5 attempts, none after a success or
\* after the fifth failure, sleeps min(0.1 * n, 1.0) seconds after the n-th
\* failure (delays in tenths of a second), and always terminates.
C11_PersistTerminates ==
  /\ []PersistBounded
  /\ (bg_pc = "loop") ~> (bg_pc \in {"returned", "raised"})

\* C11 witness: five recoverable failures in a row, then the task gives up
C11_Witness ==
  /\ bg_pc = "returned" /\ bg_attempts = _MAX_DB_RETRIES
  /\ Len(bg_history) = 5 /\ PersistFailures = 1..5
  /\ bg_sleeps = <<1, 2, 3, 4, 5>>

(***************************************************************************)
(* SpecStatus: SignalComputation.status() over a grid of confidences       *)
(***************************************************************************)
\* confidences in [0, 1]: every hundredth and the value just below it
ConfidenceGrid == { c \in 0..SCALE : c % 100 = 0 \/ c % 100 = 99 }

InitStatus ==
  /\ NoRequest /\ pc = "call" /\ result = <<>>
  /\ \E ok \in BOOLEAN : \E confidence \in ConfidenceGrid :
       args = SignalComputation(ok, confidence, "")

CallStatus == Return(status(args))

NextStatus == CallStatus
SpecStatus == InitStatus /\ [][NextStatus]_vars

\* C12 as stated: none when ok is false; when ok is true, strong from 0.66,
\* medium from 0.33 and weak for every confidence below 0.33.
C12_StatusMapping ==
  pc = "return" =>
    /\ ~args.ok => result = "none"
    /\ args.ok /\ args.confidence >= 6600 => result = "strong"
    /\ args.ok /\ 3300 <= args.confidence /\ args.confidence < 6600 => result = "medium"
    /\ args.ok /\ args.confidence < 3300 => result = "weak"

\* C12 amended: none when ok is false or the confidence is 0; otherwise strong
\* from 0.66, medium from 0.33 and weak for 0 < confidence < 0.33.
C12_StatusMappingZeroIsNone ==
  pc = "return" =>
    /\ ~args.ok \/ args.confidence <= 0 => result = "none"
    /\ args.ok /\ args.confidence >= 6600 => result = "strong"
    /\ args.ok /\ 3300 <= args.confidence /\ args.confidence < 6600 => result = "medium"
    /\ args.ok /\ 0 < args.confidence /\ args.confidence < 3300 => result = "weak"

\* C12 witness: an ok result with confidence 0 is reported as none
C12_Witness ==
  pc = "return" /\ args.ok /\ args.confidence = 0 /\ result = "none"

(***************************************************************************)
(* Properties of the group list                                            *)
(***************************************************************************)
\* the groups built so far, and the groups of the response once it is assembled
GroupsSoFar ==
  (IF pc \in {"groups", "return", "response"} THEN Range(result.group_payloads) ELSE {})
  \cup (IF pc = "response" THEN Range(result.assignees) ELSE {})

\* C13: every group, whether built from a window, built without history or put
\* in by the fallback, carries exactly four signals, of the kinds emerging_gap,
\* bridge, crowd_out, focus_shift in that order.
C13_FourSignalsFixedOrder ==
  \A g \in GroupsSoFar :
    /\ Len(g.signals) = 4
    /\ [i \in 1..4 |-> g.signals[i].type] = <<"emerging_gap", "bridge", "crowd_out", "focus_shift">>

\* C13 witness: a response with one group built from a window, a signal of it
\* firing, and one group without history
C13_Witness ==
  /\ pc = "response"
  /\ Len(result.assignees) = 2
  /\ \E g \in Range(result.assignees) : \E i \in 1..4 : g.signals[i].status # "none"
  /\ \E g \in Range(result.assignees) : \A i \in 1..4 : g.signals[i].why = NOT_ENOUGH_HISTORY

C15_LargestGroupsFirst ==
  pc \in {"return", "response"} =>
    LET P == [i \in DOMAIN result.group_payloads |-> result.group_payloads[i].assignee]
        G == { args.node_data[i].group : i \in DOMAIN args.node_data }
        cap == IF args.group_mode = "cluster" THEN 6 ELSE 5
        size(k) == Cardinality(NodesOfGroup(args.node_data, k))
        not_after(g, h) ==
          \/ size(g) > size(h)
          \/ /\ size(g) = size(h)
             /\ ~StrLess(label_lower(args.group_mode, h), label_lower(args.group_mode, g))
    IN /\ Len(P) = Min(cap, Cardinality(G))
       /\ Range(P) \subseteq G
       /\ \A i, j \in DOMAIN P : i < j => P[i] # P[j] /\ not_after(P[i], P[j])
       /\ \A g \in Range(P) : \A h \in G \ Range(P) : not_after(g, h)

\* C15 witness: seven assignee groups, the one with the last label holding two
\* members: it comes first and two groups are left out
C15_Witness ==
  /\ pc = "response"
  /\ args.group_mode = "assignee"
  /\ Cardinality({ args.node_data[i].group : i \in DOMAIN args.node_data }) = 7
  /\ Len(result.group_payloads) = 5
  /\ result.group_payloads[1].assignee = 8
  /\ Cardinality(NodesOfGroup(args.node_data, 8)) = 2

(***************************************************************************)
(* SpecNodeLists: the node id lists of the four signals of one group       *)
(***************************************************************************)
MaxGroupSize == 8

\* sorted(items, key=...): ascending by key, equal keys in their given order
RECURSIVE sorted_by(_, _)
sorted_by(items, keys) ==
  IF items = <<>> THEN <<>>
  ELSE LET p == CHOOSE i \in DOMAIN items :
                  \A j \in DOMAIN items : keys[i] < keys[j] \/ (keys[i] = keys[j] /\ i <= j)
           drop(q) == [j \in 1..(Len(q) - 1) |-> IF j < p THEN q[j] ELSE q[j + 1]]
       IN <<items[p]>> \o sorted_by(drop(items), drop(keys))

\* the distinct values of a sequence in the order they are first met
RECURSIVE first_met(_)
first_met(q) ==
  IF q = <<>> THEN <<>>
  ELSE LET r == first_met(SubSeq(q, 1, Len(q) - 1))
       IN IF q[Len(q)] \in Range(r) THEN r ELSE Append(r, q[Len(q)])

\* Counter(labels of the group).most_common(2): by falling count, equal counts
\* in the order the clusters are first met
top_clusters(assignee_indices, labels) ==
  LET met == first_met([i \in DOMAIN assignee_indices |-> labels[assignee_indices[i]]])
      count(c) == Cardinality({ i \in DOMAIN assignee_indices : labels[assignee_indices[i]] = c })
  IN Take(sorted_by(met, [i \in DOMAIN met |-> 0 - count(met[i])]), 2)

\* _compute_bridge_inputs, its fifth result: the members of the two largest
\* clusters of the group with a neighbour in the other of the two
_compute_bridge_inputs(assignee_indices, labels, idx_matrix) ==
  IF assignee_indices = <<>> THEN {}
  ELSE LET top == top_clusters(assignee_indices, labels)
       IN IF Len(top) < 2 THEN {}
          ELSE { node_idx \in Range(assignee_indices) :
                   /\ labels[node_idx] \in Range(top)
                   /\ \E pos \in DOMAIN idx_matrix[node_idx] :
                        LET neighbor_idx == idx_matrix[node_idx][pos]
                        IN /\ neighbor_idx # node_idx
                           /\ labels[neighbor_idx] \in Range(top)
                           /\ labels[neighbor_idx] # labels[node_idx] }

\* a set of indices as a list, in rising order
RECURSIVE in_order(_)
in_order(S) ==
  IF S = {} THEN <<>>
  ELSE LET least == CHOOSE x \in S : \A y \in S : x <= y
       IN <<least>> \o in_order(S \ {least})

\* the slice [:7]
first_seven(q) == Take(q, 7)

\* the slice [:6] of lines 1797, 1801 and 1808
first_six(q) == Take(q, 6)

\* lines 1791-1811: the four id lists of a group, from its nodes in date order,
\* the nodes of its latest month, the cohort thresholds and the cluster graph
node_lists(a) ==
  LET nodes == a.nodes
      latest_nodes == SubSeq(nodes, Len(nodes) - a.latest + 1, Len(nodes))
      ids(q) == [i \in DOMAIN q |-> q[i].pub_id]
      bridge_node_indices ==
        _compute_bridge_inputs([i \in DOMAIN nodes |-> nodes[i].index], a.labels, a.idx_matrix)
      index_lookup == { nodes[i].index : i \in DOMAIN nodes }
      pub_id_of(idx) == nodes[CHOOSE i \in DOMAIN nodes : nodes[i].index = idx].pub_id
      high == SelectSeq(nodes, LAMBDA n : n.score >= a.high_ws_threshold /\ n.proximity_ok)
      emerging_candidates ==
        IF high = <<>>
        THEN Take(sorted_by(nodes, [i \in DOMAIN nodes |-> 0 - nodes[i].score]), 5)
        ELSE high
      crowded == SelectSeq(latest_nodes,
                   LAMBDA n : n.density >= a.high_density_threshold /\ n.score <= a.low_ws_threshold)
      crowd_candidates ==
        IF crowded = <<>>
        THEN Take(sorted_by(latest_nodes,
                            [i \in DOMAIN latest_nodes |->
                               0 - (latest_nodes[i].density * 10 - latest_nodes[i].score)]), 5)
        ELSE crowded
      bridge_list == in_order({ idx \in bridge_node_indices : idx \in index_lookup })
  IN [focus_shift |-> ids(first_six(sorted_by(latest_nodes,
                            [i \in DOMAIN latest_nodes |-> latest_nodes[i].distance]))),
      emerging_gap |-> ids(first_six(emerging_candidates)),
      crowd_out |-> ids(first_six(crowd_candidates)),
      bridge |-> [i \in DOMAIN bridge_list |-> pub_id_of(bridge_list[i])]]

\* the cluster of each member: the first c1 in cluster 0, the next up to c2 in
\* cluster 1, the rest in cluster 2, or alternating between 0 and 1
LabelPatterns(n) ==
  { [i \in NodesOf(n) |-> IF i < c[1] THEN 0 ELSE IF i < c[2] THEN 1 ELSE 2] :
      c \in { d \in (0..n) \X (0..n) : d[1] <= d[2] } }
  \cup { [i \in NodesOf(n) |-> i % 2] }

\* a group of up to MaxGroupSize members in date order, the last one or all of
\* them in its latest month; each row of the neighbour matrix holds the node
\* itself and one other member; the cohort's score quantiles (0.90, 0.40) are
\* 0 and 0, 1 and 1 or 3 and 0, its density quantile 1 or 2
InitNodeLists ==
  /\ NoRequest /\ pc = "call" /\ result = <<>>
  /\ \E n \in {1, 2, MaxGroupSize - 1, MaxGroupSize} : \E latest \in {1, n} :
       \E labels \in LabelPatterns(n) : \E shift \in 1..Max(1, n - 1) :
         \E ws_thresholds \in {<<0, 0>>, <<1, 1>>, <<3, 0>>} : \E high_density_threshold \in {1, 2} :
           args = [nodes |-> [i \in 1..n |->
                                [index |-> i - 1, pub_id |-> i + 100,
                                 score |-> IF i <= 2 THEN 0 ELSE IF i <= 6 THEN 1 ELSE 2,
                                 distance |-> (n - i) % 4,
                                 density |-> IF i = 7 THEN 0 ELSE 1,
                                 proximity_ok |-> i # 2]],
                   latest |-> latest, labels |-> labels,
                   idx_matrix |-> [i \in NodesOf(n) |-> <<i, (i + shift) % n>>],
                   high_ws_threshold |-> ws_thresholds[1], low_ws_threshold |-> ws_thresholds[2],
                   high_density_threshold |-> high_density_threshold]

CallNodeLists == Return(node_lists(args))

NextNodeLists == CallNodeLists
SpecNodeLists == InitNodeLists /\ [][NextNodeLists]_vars

GroupPubIds == { args.nodes[i].pub_id : i \in DOMAIN args.nodes }

\* C16 as stated: each of the four lists has at most 6 entries, all of them ids
\* of nodes of the group.
C16_NodeListsAtMostSix ==
  pc = "return" =>
    \A kind \in {"emerging_gap", "bridge", "crowd_out", "focus_shift"} :
      /\ Len(result[kind]) <= 6
      /\ Range(result[kind]) \subseteq GroupPubIds

\* C16, what the code keeps: every list holds only ids of the group, each id
\* once; the lists of emerging_gap, crowd_out and focus_shift have at most 6
\* entries, the bridge list as many as the group has interface nodes.
C16_NodeListsWithinGroup ==
  pc = "return" =>
    /\ \A kind \in {"emerging_gap", "bridge", "crowd_out", "focus_shift"} :
         /\ Range(result[kind]) \subseteq GroupPubIds
         /\ \A i, j \in DOMAIN result[kind] : i # j => result[kind][i] # result[kind][j]
    /\ \A kind \in {"emerging_gap", "crowd_out", "focus_shift"} : Len(result[kind]) <= 6
    /\ Len(result.bridge) <= Len(args.nodes)

\* C16 witness: a group of eight whose emerging_gap, crowd_out and focus_shift
\* lists are cut to six while its bridge list names seven nodes or more
C16_Witness ==
  /\ pc = "return"
  /\ Len(args.nodes) = 8
  /\ Len(result.emerging_gap) = 6 /\ Len(result.crowd_out) = 6 /\ Len(result.focus_shift) = 6
  /\ Len(result.bridge) >= 7

(***************************************************************************)
(* SpecAttribution: relevance and tooltip of the nodes of the response     *)
(***************************************************************************)
NoTooltip == <<>>

\* GraphNode(...) of lines 2371-2395 with the relevance as accumulated
graph_node_unfloored(node_id, loc) ==
  [id |-> node_id,
   signals |-> loc.node_signals[node_id],
   relevance |-> IF node_id \in DOMAIN loc.node_relevance THEN loc.node_relevance[node_id] ELSE 0,
   tooltip |-> IF node_id \in DOMAIN loc.node_tooltips THEN loc.node_tooltips[node_id] ELSE NoTooltip]

\* lines 2371-2395: the GraphNode of a publication; a relevance of 0 becomes
\* 0.15 and the value is clipped to [0.05, 1.0]
graph_node(node_id, loc) ==
  LET relevance == IF node_id \in DOMAIN loc.node_relevance THEN loc.node_relevance[node_id] ELSE 0
      floored == IF relevance <= 0 THEN (15 * SCALE) \div 100 ELSE relevance
  IN [id |-> node_id,
      signals |-> loc.node_signals[node_id],
      relevance |-> Clip(floored, (5 * SCALE) \div 100, SCALE),
      tooltip |-> IF node_id \in DOMAIN loc.node_tooltips THEN loc.node_tooltips[node_id] ELSE NoTooltip]

\* the publications of the response: two of one group and one that no signal names
AttributionPubIds == {1, 2, 3}
\* what the four rules return: inactive, or active with confidence 0.03 or 0.5
AttributionOutcomes == { SignalComputation(FALSE, 0, "inactive"),
                         SignalComputation(TRUE, (3 * SCALE) \div 100, "faint"),
                         SignalComputation(TRUE, SCALE \div 2, "active") }

\* one group with a window: every list but the bridge list names a node
InitAttribution ==
  /\ NoRequest /\ pc = "call"
  /\ \E results \in [1..4 -> AttributionOutcomes] :
       \E node_ids \in [1..4 -> SUBSET {1, 2}] :
         /\ \A k \in {1, 3, 4} : node_ids[k] # {}
         /\ args = [results |-> results, node_ids |-> node_ids]
  /\ result = [signals |-> <<>>, node_signals |-> [nid \in AttributionPubIds |-> {}],
               node_relevance |-> <<>>, node_tooltips |-> <<>>]

\* lines 1832-1837: the next of the four _payload calls
AttributeSignal ==
  /\ pc = "call" /\ Len(result.signals) < 4
  /\ LET k == Len(result.signals) + 1
     IN result' = _payload(result, <<"emerging_gap", "bridge", "crowd_out", "focus_shift">>[k],
                           args.results[k], args.node_ids[k])
  /\ pc' = pc
  /\ FnUnchanged

\* lines 2371-2395: the nodes of the graph context
BuildGraphNodes ==
  /\ pc = "call" /\ Len(result.signals) = 4
  /\ pc' = "return"
  /\ result' = [nodes |-> [nid \in AttributionPubIds |-> graph_node(nid, result)]] @@ result
  /\ FnUnchanged

NextAttribution == AttributeSignal \/ BuildGraphNodes
SpecAttribution == InitAttribution /\ [][NextAttribution]_vars

\* the positions, in attribution order, of the signals that list a node
Attributing(nid) == { k \in 1..4 : nid \in args.node_ids[k] }
\* the largest confidence among the signals that list a node
MaxConfidence(nid) ==
  SetMax({ Clip(args.results[k].confidence, 0, SCALE) : k \in Attributing(nid) })
\* the signals that list a node with that largest confidence
AtMaxConfidence(nid) ==
  { k \in Attributing(nid) : Clip(args.results[k].confidence, 0, SCALE) = MaxConfidence(nid) }

\* C17 as stated: the relevance of an attributed node is the largest confidence
\* among the signals that attributed it.
C17_RelevanceIsMaxConfidence ==
  pc = "return" =>
    \A nid \in AttributionPubIds : Attributing(nid) # {} =>
      result.nodes[nid].relevance = MaxConfidence(nid)

\* C17 amended: the relevance of an attributed node is the largest confidence
\* among the signals that attributed it raised to 0.05 at least, and 0.15 when
\* that largest confidence is 0.
C17_RelevanceIsFlooredMaxConfidence ==
  pc = "return" =>
    \A nid \in AttributionPubIds : Attributing(nid) # {} =>
      result.nodes[nid].relevance =
        IF MaxConfidence(nid) = 0 THEN 1500
        ELSE IF MaxConfidence(nid) < 500 THEN 500
        ELSE MaxConfidence(nid)

\* C17 witness: one node listed only by inactive signals, shown at 0.15, beside
\* one whose best signal has confidence 0.03, shown at 0.05
C17_Witness ==
  /\ pc = "return"
  /\ Attributing(1) # {} /\ MaxConfidence(1) = 0 /\ result.nodes[1].relevance = 1500
  /\ Attributing(2) # {} /\ MaxConfidence(2) = 300 /\ result.nodes[2].relevance = 500

\* C18 as stated: the tooltip of an attributed node is the message of the first
\* signal, in attribution order, among those of largest confidence.
C18_TooltipOfFirstAtMax ==
  pc = "return" =>
    \A nid \in AttributionPubIds : Attributing(nid) # {} =>
      LET k == CHOOSE a \in AtMaxConfidence(nid) : \A b \in AtMaxConfidence(nid) : a <= b
      IN result.nodes[nid].tooltip =
           <<result.signals[k].type, args.results[k].message>>

\* C18, what the code keeps: the tooltip of an attributed node is the message of
\* a signal of largest confidence, namely the last such signal in attribution
\* order.
C18_TooltipOfLastAtMax ==
  pc = "return" =>
    \A nid \in AttributionPubIds : Attributing(nid) # {} =>
      LET k == CHOOSE a \in AtMaxConfidence(nid) : \A b \in AtMaxConfidence(nid) : a >= b
      IN result.nodes[nid].tooltip =
           <<result.signals[k].type, args.results[k].message>>

\* C18 witness: emerging_gap and focus_shift both list node 1 with confidence
\* 0.5, and the node carries the focus_shift message
C18_Witness ==
  /\ pc = "return"
  /\ AtMaxConfidence(1) = {1, 4}
  /\ MaxConfidence(1) = 5000
  /\ result.nodes[1].tooltip[1] = "focus_shift"

(***************************************************************************)
(* SpecWindow: _window_bounds over the nodes of one group                  *)
(***************************************************************************)
\* p.pub_date of the rows: 2023-01-10, 2023-02-19, 2023-04-10, 2023-07-09,
\* 2024-02-04, 2024-06-20, or NULL
WindowDates == {20230110, 20230219, 20230410, 20230709, 20240204, 20240620}
\* date_from: absent, "2023-01-10", "2023-4-10", "2023-02-30" or "2024-6-20";
\* date_to: absent, "2024-03-01" or "2024-02-30"
WindowRequests ==
  { [date_from |-> f, date_to |-> t] :
      f \in { NoDateText, DateText(2023, 1, 10, TRUE), DateText(2023, 4, 10, FALSE),
              DateText(2023, 2, 30, TRUE), DateText(2024, 6, 20, FALSE) },
      t \in { NoDateText, DateText(2024, 3, 1, TRUE), DateText(2024, 2, 30, TRUE) } }

\* the nodes of a group are rows that passed the date filter of the request
InitWindow ==
  /\ NoRequest /\ pc = "call" /\ result = <<>>
  /\ \E r \in WindowRequests : \E n \in 1..NumNodes :
       \E pub_date \in [1..n -> { v \in WindowDates \cup {None} : date_filter(r, v) }] :
         args = [req |-> r,
                 nodes |-> { [pub_id |-> i, pub_date |-> _from_int_date(pub_date[i])] : i \in 1..n }]

CallWindowBounds == Return(_window_bounds(args.req, args.nodes))

NextWindow == CallWindowBounds
SpecWindow == InitWindow /\ [][NextWindow]_vars

\* the earliest dated node of the group
EarliestOf(nodes) == CHOOSE x \in PubDatesOf(nodes) : \A y \in PubDatesOf(nodes) : x <= y

\* C20 as stated: with a lower bound not after the window end the length is
\* clamp(end - date_from, 180, 365), with no lower bound it is 365, in both
\* cases unless the window starts at the group's earliest dated node.
C20_WindowLengthClamped ==
  pc = "return" /\ result # <<None, None>> =>
    LET start_date == result[1]
        end_date == result[2]
        req_start == _parse_date_str(args.req.date_from)
    IN \/ start_date = EarliestOf(args.nodes)
       \/ /\ args.req.date_from.given /\ req_start # None /\ req_start <= end_date
          /\ end_date - start_date = Min(Max(end_date - req_start, 180), 365)
       \/ /\ ~args.req.date_from.given
          /\ end_date - start_date = 365
       \/ /\ args.req.date_from.given
          /\ req_start = None \/ req_start > end_date

\* C20 amended: the window starts at the latest of date_from, 365 days before
\* its end and the group's earliest dated node, so with a lower bound before the
\* end its length is min(end - date_from, 365) unless the earliest node is later;
\* without a usable lower bound it starts at the later of 365 days before the
\* end and the earliest node; a window is at least 60 days long.
C20_WindowStartsAtLowerBound ==
  pc = "return" /\ result # <<None, None>> =>
    LET start_date == result[1]
        end_date == result[2]
        req_start == _parse_date_str(args.req.date_from)
        earliest == EarliestOf(args.nodes)
    IN /\ end_date - start_date >= 60
       /\ IF req_start # None /\ req_start <= end_date
          THEN start_date = Max(Max(req_start, end_date - 365), earliest)
          ELSE start_date = Max(end_date - 365, earliest)

\* C20 witness: date_from "2023-4-10" with nodes of 2023-01-10 and 2023-07-09:
\* the window runs from the lower bound to the later node, 90 days
C20_Witness ==
  /\ pc = "return"
  /\ _parse_date_str(args.req.date_from) = 100
  /\ PubDatesOf(args.nodes) = {10, 190}
  /\ result = <<100, 190>>

(***************************************************************************)
(* SpecEdges: the edges of the graph context                               *)
(***************************************************************************)
MaxCohort == 13

\* cosine distance between rows i and j of X, in ring steps: the embeddings lie
\* on a circle in index order, and the two rows of `twins` coincide
ring_dist(n, twins, i, j) ==
  IF i = j \/ {i, j} = twins THEN 0 ELSE Min((i - j) % n, (j - i) % n)

\* build_knn: row i of idx, the k nearest rows of X nearest first; among rows at
\* distance 0 the node itself comes first or last
knn_row(n, k, twins, self_first, i) ==
  LET all == [p \in 1..n |-> p - 1]
      rank(j) == 2 * ring_dist(n, twins, i, j)
                 + (IF ring_dist(n, twins, i, j) = 0 /\ ((j = i) # self_first) THEN 1 ELSE 0)
  IN Take(sorted_by(all, [p \in 1..n |-> rank(all[p])]), k)

\* the slice idx[i, 1:12]
neighbor_slice_twelve(row) == SubSeq(row, 2, Min(Len(row), 12))

\* the slice idx[i, 1:11] of line 2399
neighbor_slice(row) == SubSeq(row, 2, Min(Len(row), 11))

\* lines 2397-2406: the GraphEdge list of one source node
edges_of(pub_ids, idx, i) ==
  LET targets == neighbor_slice(idx[i])
  IN [p \in DOMAIN targets |-> [source |-> pub_ids[i], target |-> pub_ids[targets[p]]]]

\* a cohort of n embeddings and neighbors = k < n; at most one pair of equal
\* embeddings, each of the two listing itself before or after the other
InitEdges ==
  /\ NoRequest /\ pc = "call" /\ result = <<>>
  /\ \E n \in {2, 3, MaxCohort - 1, MaxCohort} : \E k \in {1, 2, 11, 12} :
       \E twins \in {{}} \cup { {t, t + 1} : t \in 0..(n - 2) } :
         \E self_first \in [twins -> BOOLEAN] :
           /\ k < n
           /\ args = [n |-> n, k |-> k, twins |-> twins,
                      pub_ids |-> [i \in NodesOf(n) |-> i + 100],
                      idx |-> [i \in NodesOf(n) |->
                                 knn_row(n, k, twins, i \notin twins \/ self_first[i], i)]]

CallBuildEdges ==
  Return([i \in NodesOf(args.n) |-> edges_of(args.pub_ids, args.idx, i)])

NextEdges == CallBuildEdges
SpecEdges == InitEdges /\ [][NextEdges]_vars

\* C19 as stated: wherever a node's own index sits in its row, no edge has
\* source equal to target and no node emits more than 10 edges.
C19_NoSelfEdgeAtMostTen ==
  pc = "return" =>
    \A i \in NodesOf(args.n) :
      /\ Len(result[i]) <= 10
      /\ \A p \in DOMAIN result[i] : result[i][p].source # result[i][p].target

\* C19, what the code keeps: each node emits min(neighbors - 1, 10) edges, to
\* the nodes at positions 2..11 of its row, and an edge joins a node to itself
\* exactly when the node's own index sits at one of those positions.
C19_EdgesSkipFirstColumn ==
  pc = "return" =>
    \A i \in NodesOf(args.n) :
      /\ Len(result[i]) = Min(args.k - 1, 10)
      /\ \A p \in DOMAIN result[i] :
           /\ result[i][p].source = args.pub_ids[i]
           /\ result[i][p].target = args.pub_ids[args.idx[i][p + 1]]
           /\ (result[i][p].source = result[i][p].target) <=> (args.idx[i][p + 1] = i)

\* C19 witness: 13 embeddings, neighbors = 12, rows 0 and 1 equal and each
\* listing the other first: both emit 10 edges, the first of them to itself
C19_Witness ==
  /\ pc = "return"
  /\ args.n = 13 /\ args.k = 12
  /\ args.idx[0][1] = 1 /\ args.idx[0][2] = 0
  /\ Len(result[0]) = 10
  /\ result[0][1].source = result[0][1].target

(***************************************************************************)
(* Properties of the window end                                            *)
(***************************************************************************)
\* the latest dated node of the group
LatestOf(nodes) == CHOOSE x \in PubDatesOf(nodes) : \A y \in PubDatesOf(nodes) : y <= x

\* C21 as stated: with an end date in the request the window ends at the later
\* of that date and the latest dated node, capped to that date; without one it
\* ends at the latest dated node.
C21_WindowEndAnchoredAtRequest ==
  pc = "return" /\ result # <<None, None>> =>
    LET req_end == _parse_date_str(args.req.date_to)
    IN /\ req_end # None =>
            result[2] = Min(Max(req_end, LatestOf(args.nodes)), req_end)
       /\ ~args.req.date_to.given => result[2] = LatestOf(args.nodes)

\* C21 amended: the window ends at the earlier of the request's end date and the
\* latest dated node; the query keeps only rows dated before the end date, so
\* the window ends at the latest dated node, before the request's end date.
C21_WindowEndIsLatestNode ==
  pc = "return" /\ result # <<None, None>> =>
    LET req_end == _parse_date_str(args.req.date_to)
    IN /\ result[2] = LatestOf(args.nodes)
       /\ req_end # None => result[2] = Min(LatestOf(args.nodes), req_end) /\ result[2] < req_end

\* C21 witness: date_to "2024-03-01" and a latest node of 2024-02-04: the window
\* ends on 2024-02-04
C21_Witness ==
  /\ pc = "return"
  /\ _parse_date_str(args.req.date_to) = 426
  /\ LatestOf(args.nodes) = 400
  /\ result # <<None, None>> /\ result[2] = 400

(***************************************************************************)
(* SpecFocusShift: signal_focus_shift over the outputs of slope_conf       *)
(***************************************************************************)
\* signal_focus_shift with "conf *= 0.5" in place of line 80
signal_focus_shift_halved(a) ==
  IF a.len_dist < 3 \/ a.len_share < 3 \/ a.n_samples < 4
  THEN SignalComputation(FALSE, 0, "Not enough recent filings to judge movement toward focus input(s).")
  ELSE LET dist_up == a.s_dist > 0
           share_up == a.s_share > 0
           soft_dist == a.s_dist > (0 - (2 * SCALE) \div 100)
           soft_share == a.s_share > (0 - (2 * SCALE) \div 100)
           trend_votes == (IF dist_up THEN 1 ELSE 0) + (IF share_up THEN 1 ELSE 0)
           ok == trend_votes >= 1 /\ soft_dist /\ soft_share
           both == (Min(SCALE, (Max(0, a.t_dist) + Max(0, a.t_share)) \div 2)
                    * Min(SCALE, (a.n_samples * SCALE) \div 40)) \div SCALE
           conf == Clip(IF trend_votes = 1 THEN (both * 5) \div 10 ELSE both, 0, SCALE)
       IN IF ~ok THEN SignalComputation(FALSE, 0, "anchored")
          ELSE IF trend_votes = 1 THEN SignalComputation(TRUE, conf, "converging, no clear pattern")
          ELSE SignalComputation(TRUE, conf, "converging")

\* signal_focus_shift from line 65 on; (s_dist, t_dist) and (s_share, t_share)
\* are what slope_conf returns for the negated distances and for the shares
signal_focus_shift(a) ==
  IF a.len_dist < 3 \/ a.len_share < 3 \/ a.n_samples < 4
  THEN SignalComputation(FALSE, 0, "Not enough recent filings to judge movement toward focus input(s).")
  ELSE LET dist_up == a.s_dist > 0
           share_up == a.s_share > 0
           soft_dist == a.s_dist > (0 - (2 * SCALE) \div 100)
           soft_share == a.s_share > (0 - (2 * SCALE) \div 100)
           trend_votes == (IF dist_up THEN 1 ELSE 0) + (IF share_up THEN 1 ELSE 0)
           ok == trend_votes >= 1 /\ soft_dist /\ soft_share
           both == (Min(SCALE, (Max(0, a.t_dist) + Max(0, a.t_share)) \div 2)
                    * Min(SCALE, (a.n_samples * SCALE) \div 40)) \div SCALE
           conf == Clip(IF trend_votes = 1 THEN (both * 6) \div 10 ELSE both, 0, SCALE)
       IN IF ~ok THEN SignalComputation(FALSE, 0, "anchored")
          ELSE IF trend_votes = 1 THEN SignalComputation(TRUE, conf, "converging, no clear pattern")
          ELSE SignalComputation(TRUE, conf, "converging")

\* slopes of -0.05, -0.01, 0 and 0.01 per step, t-statistics of 0, 0.2, 1 and 3
SlopeValues == {-500, -100, 0, 100}
TValues == {0, 2000, 10000, 30000}
\* the monthly series hold 2 or 3 buckets, the window 3 to 60 nodes
InitFocusShift ==
  /\ NoRequest /\ pc = "call" /\ result = <<>>
  /\ \E len \in {2, 3} : \E n_samples \in {3, 4, 10, 20, 40, 60} :
       \E s_dist \in SlopeValues : \E s_share \in SlopeValues :
         \E t_dist \in TValues : \E t_share \in TValues :
           args = [len_dist |-> len, len_share |-> len, n_samples |-> n_samples,
                   s_dist |-> s_dist, t_dist |-> t_dist, s_share |-> s_share, t_share |-> t_share]

CallFocusShift == Return(signal_focus_shift(args))

NextFocusShift == CallFocusShift
SpecFocusShift == InitFocusShift /\ [][NextFocusShift]_vars

\* the confidence the t-statistics and the sample count give when both trends
\* confirm
BothTrendsConfidence ==
  (Min(SCALE, (args.t_dist + args.t_share) \div 2)
   * Min(SCALE, (args.n_samples * SCALE) \div 40)) \div SCALE
\* exactly one of the two slopes is positive
OneTrendConfirms == (args.s_dist > 0) # (args.s_share > 0)

\* C22 as stated: with exactly one confirming trend and an ok signal, the
\* confidence is half of what both trends confirming would give.
C22_OneTrendHalves ==
  pc = "return" /\ result.ok /\ OneTrendConfirms =>
    2 * result.confidence = BothTrendsConfidence

\* C22, what the code does: with exactly one confirming trend and an ok signal,
\* the confidence is 0.6 times what both trends confirming would give; with
\* both it is that value itself, and 0 when the signal is not ok.
C22_OneTrendSixTenths ==
  pc = "return" =>
    /\ result.ok /\ OneTrendConfirms => 10 * result.confidence = 6 * BothTrendsConfidence
    /\ result.ok /\ ~OneTrendConfirms => result.confidence = BothTrendsConfidence
    /\ ~result.ok => result.confidence = 0

\* C22 witness: 20 samples, t-statistics 1 and 3, only the share rising: the
\* confidence is 0.3 where both trends would give 0.5
C22_Witness ==
  /\ pc = "return"
  /\ result.ok /\ OneTrendConfirms
  /\ args.n_samples = 20 /\ args.t_dist = 10000 /\ args.t_share = 30000
  /\ BothTrendsConfidence = 5000
  /\ result.confidence = 3000

(***************************************************************************)
(* SpecBridge: signal_bridge                                               *)
(***************************************************************************)
\* signal_bridge without the 0.85 of line 209
signal_bridge_undiscounted(openness, inter_weight, mom_left, mom_right) ==
  LET shared_growth == Min(mom_left, mom_right) >= (20 * SCALE) \div 100
      balanced_growth == \/ shared_growth
                         \/ /\ mom_left + mom_right >= 2 * ((45 * SCALE) \div 100)
                            /\ Min(mom_left, mom_right) >= (15 * SCALE) \div 100
      ok == /\ openness <= (35 * SCALE) \div 100
            /\ inter_weight >= (50 * SCALE) \div 100
            /\ balanced_growth
      conf == Clip((Min(mom_left, mom_right) * inter_weight) \div SCALE, 0, SCALE)
  IN IF ~ok THEN SignalComputation(FALSE, 0, "weakly connected")
     ELSE IF shared_growth THEN SignalComputation(TRUE, conf, "shared growth")
     ELSE SignalComputation(TRUE, conf, "asymmetric growth")

\* signal_bridge(openness, inter_weight, mom_left, mom_right)
signal_bridge(openness, inter_weight, mom_left, mom_right) ==
  LET shared_growth == Min(mom_left, mom_right) >= (20 * SCALE) \div 100
      balanced_growth == \/ shared_growth
                         \/ /\ mom_left + mom_right >= 2 * ((45 * SCALE) \div 100)
                            /\ Min(mom_left, mom_right) >= (15 * SCALE) \div 100
      ok == /\ openness <= (35 * SCALE) \div 100
            /\ inter_weight >= (50 * SCALE) \div 100
            /\ balanced_growth
      conf == Clip((Min(mom_left, mom_right) * inter_weight) \div SCALE, 0, SCALE)
  IN IF ~ok THEN SignalComputation(FALSE, 0, "weakly connected")
     ELSE IF shared_growth THEN SignalComputation(TRUE, conf, "shared growth")
     ELSE SignalComputation(TRUE, (conf * 85) \div 100, "asymmetric growth")

\* values of [0, 1] on and beside the thresholds of the rule
OpennessValues == {0, 3500, 3600, 10000}
InterWeightValues == {0, 4900, 5000, 7500, 10000}
BridgeMomentumValues == {0, 1400, 1600, 2000, 4000, 7200, 7400, 10000}

InitBridge ==
  /\ NoRequest /\ pc = "call" /\ result = <<>>
  /\ \E openness \in OpennessValues : \E inter_weight \in InterWeightValues :
       \E mom_left \in BridgeMomentumValues : \E mom_right \in BridgeMomentumValues :
         args = [openness |-> openness, inter_weight |-> inter_weight,
                 mom_left |-> mom_left, mom_right |-> mom_right]

CallSignalBridge ==
  Return(signal_bridge(args.openness, args.inter_weight, args.mom_left, args.mom_right))

NextBridge == CallSignalBridge
SpecBridge == InitBridge /\ [][NextBridge]_vars

\* the smaller of the two momenta
SmallerMomentum == IF args.mom_left <= args.mom_right THEN args.mom_left ELSE args.mom_right

\* C23: ok holds exactly when openness <= 0.35, inter_weight >= 0.5 and the
\* momenta are both >= 0.2 or average >= 0.45 with the smaller >= 0.15; the
\* confidence is 0 when ok is false, and otherwise the smaller momentum times
\* inter_weight, times 0.85 only when the momenta are not both >= 0.2.
C23_BridgeRule ==
  pc = "return" =>
    LET both == args.mom_left >= 2000 /\ args.mom_right >= 2000
        balanced == args.mom_left + args.mom_right >= 9000 /\ SmallerMomentum >= 1500
    IN /\ result.ok <=> (args.openness <= 3500 /\ args.inter_weight >= 5000 /\ (both \/ balanced))
       /\ ~result.ok => result.confidence = 0
       /\ result.ok /\ both => SCALE * result.confidence = SmallerMomentum * args.inter_weight
       /\ result.ok /\ ~both =>
            100 * SCALE * result.confidence = 85 * SmallerMomentum * args.inter_weight

\* C23 witness: momenta 0.16 and 1.0 with weight 0.75 and openness 0.35: ok, and
\* the confidence is 0.85 * 0.16 * 0.75 = 0.102
C23_Witness ==
  /\ pc = "return"
  /\ args.openness = 3500 /\ args.inter_weight = 7500
  /\ args.mom_left = 1600 /\ args.mom_right = 10000
  /\ result.ok /\ result.confidence = 1020

(***************************************************************************)
(* Properties of the union-find fallback of cluster_labels                 *)
(***************************************************************************)
\* i and j are joined by a KNN entry, in either row, of similarity >= 0.75
StrongEdge(i, j) ==
  /\ i # j
  /\ \/ \E p \in DOMAIN args.idx[i] : args.idx[i][p] = j /\ SCALE - args.dist[i][p] >= 7500
     \/ \E p \in DOMAIN args.idx[j] : args.idx[j][p] = i /\ SCALE - args.dist[j][p] >= 7500

\* the nodes a path of such edges reaches from the nodes of S
RECURSIVE ReachedFrom(_)
ReachedFrom(S) ==
  LET wider == S \cup { j \in NodesOf(args.n) : \E i \in S : StrongEdge(i, j) }
  IN IF wider = S THEN S ELSE ReachedFrom(wider)

\* find(i) once all unions are done
FinalRoot(i) ==
  find(union_edges([a \in NodesOf(args.n) |-> a], args.dist, args.idx, args.n, 0, 1), i).root

\* C24: on the union-find path two nodes get the same cluster id exactly when a
\* path of KNN edges of similarity >= 0.75 joins them, and the ids follow the
\* order of the components' final root indices.
C24_ComponentsOfStrongEdges ==
  pc = "return" /\ ~args.have_leiden =>
    \A i, j \in NodesOf(args.n) :
      /\ result[i] = result[j] <=> j \in ReachedFrom({i})
      /\ result[i] < result[j] <=> FinalRoot(i) < FinalRoot(j)

\* C24 witness: nodes 0 and 2 coincide and only row 2 lists the other, so their
\* component has root 2; node 1 stands alone with root 1 and gets id 0
C24_Witness ==
  /\ pc = "return" /\ ~args.have_leiden /\ args.n = 3
  /\ ReachedFrom({0}) = {0, 2}
  /\ FinalRoot(0) = 2 /\ FinalRoot(1) = 1
  /\ result[1] = 0 /\ result[0] = 1 /\ result[2] = 1

(***************************************************************************)
(* Properties of the momentum cutoff                                       *)
(***************************************************************************)
\* the rows of d that belong to cluster c
MomentumMembers(c) == { i \in args.present : args.labels[i] = c }
\* the latest pub_date of d, as stored
LatestStored == SetMax({ args.pub_dates[i] : i \in { v \in args.present : args.pub_dates[v] # None } })
AnyDated == \E i \in args.present : args.pub_dates[i] # None

\* raw(c) = max(0, R - 0.25 * O) in quarters, R counting the members for which
\* recent holds
RawOf(c, recent(_)) ==
  LET R == Cardinality({ i \in MomentumMembers(c) : recent(i) })
      O == Cardinality(MomentumMembers(c)) - R
  IN IF 4 * R - O > 0 THEN 4 * R - O ELSE 0

\* every entry of the array is raw(c) over the largest raw, or 0 when that is 0
MomentumFollows(recent(_)) ==
  LET largest == SetMax({ RawOf(c, recent) : c \in DOMAIN result.arr })
  IN \A c \in DOMAIN result.arr :
       result.arr[c] = IF largest = 0 THEN 0 ELSE (RawOf(c, recent) * SCALE) \div largest

\* dated within the 90 days before the latest date
RecentByCalendar(i) ==
  /\ AnyDated /\ args.pub_dates[i] # None
  /\ _from_int_date(args.pub_dates[i]) >= _from_int_date(LatestStored) - 90
\* stored value at least the latest stored value minus 90
RecentByStoredValue(i) ==
  /\ AnyDated /\ args.pub_dates[i] # None
  /\ args.pub_dates[i] >= LatestStored - 90

\* C25 as stated: the momentum of every cluster is raw(c) over the largest raw,
\* with R(c) counting the members dated on or after the day 90 days before the
\* latest date of the run.
C25_MomentumCutoffNinetyDays ==
  pc = "return" => MomentumFollows(RecentByCalendar)

\* C25, what the code computes: the same, with R(c) counting the members whose
\* stored YYYYMMDD value is at least the largest stored value minus 90.
C25_MomentumCutoffStoredValue ==
  pc = "return" => MomentumFollows(RecentByStoredValue)

\* C25 witness: cluster 0 holds a filing of 2024-01-10 and cluster 1 one of
\* 2023-12-01, forty days earlier, and cluster 1 has momentum 0
C25_Witness ==
  /\ pc = "return" /\ args.n = 2 /\ args.present = {0, 1}
  /\ args.labels[0] = 0 /\ args.labels[1] = 1
  /\ args.pub_dates[0] = 20240110 /\ args.pub_dates[1] = 20231201
  /\ result.arr[0] = SCALE /\ result.arr[1] = 0

(***************************************************************************)
(* SpecLeidenGraph: the graph cluster_labels builds for the partitioner    *)
(***************************************************************************)
InitLeidenGraph == InitCluster /\ args.have_leiden

\* lines 1205-1215: edges and weights handed to g.add_edges
CallLeidenEdges == Return(leiden_edges(args.dist, args.idx, args.n, 0, 1))

NextLeidenGraph == CallLeidenEdges
SpecLeidenGraph == InitLeidenGraph /\ [][NextLeidenGraph]_vars

\* the positions of the edge list that join i and j, in either orientation
EdgesJoining(i, j) ==
  { p \in DOMAIN result : result[p].edge = <<i, j>> \/ result[p].edge = <<j, i>> }
\* j is listed in the neighbour row of i
Lists(i, j) == \E p \in DOMAIN args.idx[i] : args.idx[i][p] = j

\* C26 as stated: every pair of distinct nodes one of which lists the other is
\* joined by exactly one edge, and no edge joins a node to itself.
C26_EveryAdjacencyOneEdge ==
  pc = "return" =>
    /\ \A i, j \in NodesOf(args.n) :
         i # j /\ (Lists(i, j) \/ Lists(j, i)) => Cardinality(EdgesJoining(i, j)) = 1
    /\ \A p \in DOMAIN result : result[p].edge[1] # result[p].edge[2]

\* C26, what the code keeps: the graph has no self-loop and no repeated edge,
\* and it joins i < j exactly when the row of the lower node i lists j.
C26_EdgeWhenLowerNodeLists ==
  pc = "return" =>
    /\ \A p \in DOMAIN result : result[p].edge[1] < result[p].edge[2]
    /\ \A i, j \in NodesOf(args.n) :
         i < j => Cardinality(EdgesJoining(i, j)) = (IF Lists(i, j) THEN 1 ELSE 0)

\* C26 witness: node 1 lists node 0, node 0 lists node 2 instead, and the graph
\* has no edge between 0 and 1
C26_Witness ==
  /\ pc = "return" /\ args.n = 3 /\ args.k = 2
  /\ Lists(1, 0) /\ ~Lists(0, 1) /\ Lists(0, 2)
  /\ EdgesJoining(0, 1) = {}
  /\ Cardinality(EdgesJoining(0, 2)) = 1

(***************************************************************************)
(* SpecGroupBridge: the bridge signal of every group of build_group_signals *)
(***************************************************************************)
GroupBridgeNodes == 4

\* _compute_bridge_inputs, all five results; momentum is the array of
\* neighbor_momentum, momentum[c + 1] the entry of cluster c
bridge_rule_inputs(assignee_indices, labels, idx_matrix, dist_matrix, momentum) ==
  LET none == [openness |-> SCALE, inter_weight |-> 0, mom_left |-> 0, mom_right |-> 0,
               bridge_nodes |-> {}]
      top == top_clusters(assignee_indices, labels)
  IN IF assignee_indices = <<>> THEN none
     ELSE IF Len(top) < 2 THEN none
     ELSE LET crossing ==
                { c \in UNION { {node_idx} \X DOMAIN idx_matrix[node_idx] :
                                  node_idx \in Range(assignee_indices) } :
                    LET neighbor_idx == idx_matrix[c[1]][c[2]]
                    IN /\ labels[c[1]] \in Range(top)
                       /\ neighbor_idx # c[1]
                       /\ labels[neighbor_idx] \in Range(top)
                       /\ labels[neighbor_idx] # labels[c[1]] }
              weights == [c \in crossing |-> SCALE - dist_matrix[c[1]][c[2]]]
              bridge_nodes == _compute_bridge_inputs(assignee_indices, labels, idx_matrix)
              cluster_total ==
                Cardinality({ i \in DOMAIN assignee_indices :
                                labels[assignee_indices[i]] \in Range(top) })
              mom(c) == IF c < Len(momentum) THEN momentum[c + 1] ELSE 0
          IN [openness |-> (Cardinality(bridge_nodes) * SCALE) \div Max(1, cluster_total),
              inter_weight |-> IF crossing = {} THEN 0
                               ELSE SumOver(weights, crossing) \div Cardinality(crossing),
              mom_left |-> mom(top[1]), mom_right |-> mom(top[2]),
              bridge_nodes |-> bridge_nodes]

\* the grouping key of a node when every node is grouped by its assignee
group_key_assignee(group_mode, node) == <<"assignee", node.assignee>>

\* lines 1671-1703: the key build_group_signals groups a node under
group_key(group_mode, node) ==
  IF group_mode = "cluster" THEN <<"cluster", node.cluster_id>>
  ELSE <<"assignee", node.assignee>>

\* lines 1730-1737 and 1786-1790, 1811, 1832: the bridge payload of a group
bridge_payload(group_mode, enough_history, nodes, labels, idx_matrix, dist_matrix, momentum) ==
  IF ~enough_history
  THEN [ok |-> FALSE, status |-> status(SignalComputation(FALSE, 0, "Not enough history")),
        confidence |-> 0, node_ids |-> <<>>]
  ELSE LET group_indices == [i \in DOMAIN nodes |-> nodes[i].index]
           b == bridge_rule_inputs(group_indices, labels, idx_matrix, dist_matrix, momentum)
           bridge_result == signal_bridge(b.openness, b.inter_weight, b.mom_left, b.mom_right)
           kept == in_order({ idx \in b.bridge_nodes : idx \in Range(group_indices) })
       IN [ok |-> bridge_result.ok, status |-> status(bridge_result),
           confidence |-> Clip(bridge_result.confidence, 0, SCALE),
           node_ids |-> [i \in DOMAIN kept |-> kept[i] + 100]]

\* build_group_signals, the bridge signal of every group: a group holds the
\* nodes of one key, in the order of node_data
group_bridge_signals(a) ==
  LET node_data == [i \in 1..a.n |->
                      [index |-> i - 1, pub_id |-> i + 99, assignee |-> a.assignees[i - 1],
                       cluster_id |-> a.labels[i - 1]]]
      keys == { group_key(a.group_mode, node_data[i]) : i \in DOMAIN node_data }
      members(key) ==
        LET pos == in_order({ i \in DOMAIN node_data : group_key(a.group_mode, node_data[i]) = key })
        IN [i \in DOMAIN pos |-> node_data[pos[i]]]
  IN [key \in keys |->
        bridge_payload(a.group_mode, a.enough_history, members(key), a.labels,
                       a.idx_matrix, a.dist_matrix, a.momentum)]

\* the neighbour of every node next to itself: the node a fixed step further,
\* or node 0 for all and node 1 for node 0
NeighbourChoices(n) ==
  { [i \in NodesOf(n) |-> <<i, (i + shift) % n>>] : shift \in 1..(n - 1) }
  \cup { [i \in NodesOf(n) |-> <<i, IF i = 0 THEN 1 ELSE 0>>] }

\* the momentum array: empty, or one entry per cluster id 0..2
BridgeMomentumArrays ==
  { <<>>, <<SCALE, SCALE, SCALE>>, <<3000, SCALE, 0>>, <<SCALE, 1600, SCALE>> }

InitGroupBridge ==
  /\ NoRequest /\ pc = "call" /\ result = <<>>
  /\ \E labels \in LabelPatterns(GroupBridgeNodes) :
       \E assignees \in [NodesOf(GroupBridgeNodes) -> {1, 2}] :
         \E idx_matrix \in NeighbourChoices(GroupBridgeNodes) : \E d \in {0, 6000} :
           \E momentum \in BridgeMomentumArrays : \E group_mode \in {"cluster", "assignee"} :
             \E enough_history \in BOOLEAN :
               args = [n |-> GroupBridgeNodes, labels |-> labels, assignees |-> assignees,
                       idx_matrix |-> idx_matrix,
                       dist_matrix |-> [i \in NodesOf(GroupBridgeNodes) |-> <<0, d>>],
                       momentum |-> momentum, group_mode |-> group_mode,
                       enough_history |-> enough_history]

CallGroupBridgeSignals == Return(group_bridge_signals(args))

NextGroupBridge == CallGroupBridgeSignals
SpecGroupBridge == InitGroupBridge /\ [][NextGroupBridge]_vars

\* the bridge signal all nodes together would get as one group
BridgeOfAllNodes ==
  bridge_payload("assignee", TRUE,
                 [i \in 1..args.n |-> [index |-> i - 1]], args.labels,
                 args.idx_matrix, args.dist_matrix, args.momentum)

\* C27: when groups are clusters, the bridge signal of every group is not ok,
\* has status none and confidence 0 and lists no node, whatever the neighbour
\* graph and the momentum array are.
C27_NoBridgeInClusterMode ==
  (pc = "return" /\ args.group_mode = "cluster") =>
    \A key \in DOMAIN result :
      result[key] = [ok |-> FALSE, status |-> "none", confidence |-> 0, node_ids |-> <<>>]

\* C27 witness: clusters of 3 and 1 nodes with growing momentum and one node
\* joining them, which fires the bridge when the four nodes form one group;
\* grouped by cluster, both groups are returned without it
C27_Witness ==
  /\ pc = "return" /\ args.group_mode = "cluster" /\ args.enough_history
  /\ Cardinality(DOMAIN result) = 2
  /\ BridgeOfAllNodes.ok /\ BridgeOfAllNodes.status = "strong"
  /\ BridgeOfAllNodes.node_ids = <<103>>
  /\ \A key \in DOMAIN result : result[key].status = "none"

(***************************************************************************)
(* Properties of the signal tags of the nodes (SpecAttribution)            *)
(***************************************************************************)
\* the position, in attribution order, of the payload of a kind
PayloadOf(kind) == CHOOSE k \in 1..4 : result.signals[k].type = kind

\* C28 as stated: a node lists a signal kind, and carries the tooltip of that
\* signal, only if the signal of that kind has a status other than none.
C28_TaggedOnlyByActiveSignals ==
  pc = "return" =>
    \A nid \in AttributionPubIds :
      /\ \A kind \in result.nodes[nid].signals :
           result.signals[PayloadOf(kind)].status # "none"
      /\ result.nodes[nid].tooltip # NoTooltip =>
           result.signals[PayloadOf(result.nodes[nid].tooltip[1])].status # "none"

\* C28, what the code keeps: a node lists a signal kind exactly when the payload
\* of that kind names the node, whatever the status of the signal is, and it
\* carries a tooltip exactly when some payload names it, from one of those.
C28_TaggedByEveryListingSignal ==
  pc = "return" =>
    \A nid \in AttributionPubIds :
      /\ result.nodes[nid].signals =
           { result.signals[k].type : k \in Attributing(nid) }
      /\ (result.nodes[nid].tooltip # NoTooltip) = (Attributing(nid) # {})
      /\ result.nodes[nid].tooltip # NoTooltip =>
           PayloadOf(result.nodes[nid].tooltip[1]) \in Attributing(nid)

\* C28 witness: emerging_gap is the only signal naming node 1 and it is
\* inactive, and the node carries its tag and its tooltip
C28_Witness ==
  /\ pc = "return"
  /\ Attributing(1) = {1}
  /\ result.signals[1].status = "none" /\ result.signals[1].confidence = 0
  /\ result.nodes[1].signals = {"emerging_gap"}
  /\ result.nodes[1].tooltip = <<"emerging_gap", "inactive">>

(***************************************************************************)
(* SpecEmergingGap: signal_emerging_gap for a group within its cohort      *)
(***************************************************************************)
EmergingCohort == 4
\* a cohort large enough for a share between 85% and 95%
LargeCohort == 7

\* the share of ref strictly below value
pct_rank_strict(value, ref) ==
  IF ref = <<>> THEN 0
  ELSE (Cardinality({ i \in DOMAIN ref : ref[i] < value }) * SCALE) \div Max(1, Len(ref))

\* pct_rank(value, ref): the share of ref at or below value
pct_rank(value, ref) ==
  IF ref = <<>> THEN 0
  ELSE (Cardinality({ i \in DOMAIN ref : ref[i] <= value }) * SCALE) \div Max(1, Len(ref))

\* signal_emerging_gap(overview_series, cohort_scores, neighbor_momentum)
signal_emerging_gap(overview_series, cohort_scores, neighbor_mom) ==
  IF overview_series = <<>> THEN SignalComputation(FALSE, 0, "no overview scores")
  ELSE LET current_score == overview_series[Len(overview_series)]
           percentile == pct_rank(current_score, cohort_scores)
           strong_sparse == percentile >= (95 * SCALE) \div 100
           heated_neighbors == neighbor_mom > (20 * SCALE) \div 100
           ok == (percentile >= (85 * SCALE) \div 100 /\ heated_neighbors) \/ strong_sparse
           conf == Clip((55 * percentile + 45 * Max(0, neighbor_mom)) \div 100, 0, SCALE)
       IN IF ~ok THEN SignalComputation(FALSE, 0, "overlap")
          ELSE IF heated_neighbors THEN SignalComputation(TRUE, conf, "window closing")
          ELSE SignalComputation(TRUE, (conf * 75) \div 100, "higher potential")

\* a node of the cohort: focus-tagged, or with the score of compute_overview_metrics
CohortNodes == { [is_focus |-> TRUE, score |-> 0] }
               \cup { [is_focus |-> FALSE, score |-> v] : v \in {0, SCALE \div 4, SCALE} }
\* mean momentum of the latest bucket, on and beside the 0.2 of the rule
NeighborMomentumValues == {0, 2000, 2100, SCALE}

\* the cohort of the request, the nodes of it in the latest bucket of the group,
\* and the mean momentum of that bucket; the large cohort has its focus-tagged
\* nodes first and the bucket is a leading part of it
InitEmergingGap ==
  /\ NoRequest /\ pc = "call" /\ result = <<>>
  /\ \E neighbor_mom \in NeighborMomentumValues :
       \/ \E n \in 1..EmergingCohort : \E node_data \in [1..n -> CohortNodes] :
            \E latest \in (SUBSET (1..n)) \ {{}} :
              args = [node_data |-> node_data, latest |-> latest,
                      neighbor_mom |-> neighbor_mom]
       \/ \E focus \in 0..LargeCohort : \E m \in 1..LargeCohort :
            args = [node_data |-> [i \in 1..LargeCohort |->
                                     [is_focus |-> i <= focus,
                                      score |-> IF i <= focus THEN 0 ELSE SCALE]],
                    latest |-> 1..m, neighbor_mom |-> neighbor_mom]

\* lines 1656-1663, 1780 and 1787: overview_series ends with the mean score of
\* the latest bucket, cohort_scores are the scores of all nodes
emerging_of_group(a) ==
  LET cohort_scores == [i \in DOMAIN a.node_data |-> a.node_data[i].score]
      current == SumOver(cohort_scores, a.latest) \div Cardinality(a.latest)
  IN signal_emerging_gap(<<current>>, cohort_scores, a.neighbor_mom)

CallEmergingGap == Return(emerging_of_group(args))

NextEmergingGap == CallEmergingGap
SpecEmergingGap == InitEmergingGap /\ [][NextEmergingGap]_vars

\* every node of the latest bucket scores 0
CurrentScoreZero == \A i \in args.latest : args.node_data[i].score = 0
\* the number of nodes of the cohort that score 0
ZeroScored == Cardinality({ i \in DOMAIN args.node_data : args.node_data[i].score = 0 })

\* C29 as stated: emerging_gap does not fire for a group whose current score is
\* 0, whatever the cohort is.
C29_ZeroScoreNeverFires ==
  (pc = "return" /\ CurrentScoreZero) => (~result.ok /\ result.confidence = 0)

\* C29, what the code keeps: for a group whose current score is 0, emerging_gap
\* fires exactly when the nodes scoring 0 are at least 95% of the cohort, or at
\* least 85% of it with a neighbour momentum above 0.2.
C29_ZeroScoreFiresByShareOfZeros ==
  (pc = "return" /\ CurrentScoreZero) =>
    result.ok = (\/ 100 * ZeroScored >= 95 * Len(args.node_data)
                 \/ /\ 100 * ZeroScored >= 85 * Len(args.node_data)
                    /\ args.neighbor_mom > 2000)

\* C29 witness: a cohort of seven nodes, six of them focus-tagged and scoring 0,
\* and a group whose latest bucket holds focus-tagged nodes only: without
\* momentum the group does not fire, with momentum 1.0 it fires with
\* confidence 0.55 * 6/7 + 0.45
C29_Witness ==
  /\ pc = "return" /\ CurrentScoreZero
  /\ Len(args.node_data) = LargeCohort /\ ZeroScored = 6
  /\ \A i \in args.latest : args.node_data[i].is_focus
  /\ args.neighbor_mom = SCALE
  /\ result.ok /\ result.confidence = 9214 /\ status(result) = "strong"

(***************************************************************************)
(* SpecPoolRace: a graph request and the write-back of an earlier request, *)
(* each on its own thread of the worker pool, sharing the module-level     *)
(* _pool; the steps are the statements that read or write the global       *)
(***************************************************************************)
RaceRequestRest == <<req, fetched, point_count, called, scheduled>>
RaceBgRest == <<bg_history, bg_sleeps>>

\* Depends(get_pool) and line 2292: get_pool(), "if _pool is None" and, when
\* the global is set, "return _pool"
RequestGetPool ==
  /\ pc = "get_pool"
  /\ IF _pool = None
     THEN pc' = "get_pool_create" /\ UNCHANGED <<pool, current_pool>>
     ELSE /\ pc' = "loop"
          /\ current_pool' = get_pool_result(_pool, created)
          /\ pool' = IF pool = None THEN get_pool_result(_pool, created) ELSE pool
  /\ UNCHANGED <<attempts, last_error, response, RaceRequestRest, poolVars, bgVars, fnVars>>

\* get_pool(), lines 402-405: the pool is built, stored in the global, returned
RequestGetPoolCreate ==
  /\ pc = "get_pool_create"
  /\ _pool' = get_pool_result(None, created)
  /\ created' = get_pool_created(None, created)
  /\ current_pool' = get_pool_result(None, created)
  /\ pool' = IF pool = None THEN get_pool_result(None, created) ELSE pool
  /\ pc' = "loop"
  /\ UNCHANGED <<_DB_URL, closed, attempts, last_error, response, RaceRequestRest, bgVars,
                 fnVars>>

\* while attempts < _MAX_DB_RETRIES, else the 503 after the loop
RequestLoopTest ==
  /\ pc = "loop"
  /\ IF attempts < _MAX_DB_RETRIES
     THEN pc' = "attempt" /\ UNCHANGED response
     ELSE pc' = "failed" /\ response' = HTTPException(503, DETAIL_RETRY)
  /\ UNCHANGED <<attempts, last_error, current_pool, pool, RaceRequestRest, poolVars, bgVars,
                 fnVars>>

\* the with-block of one attempt: it completes only on a pool that is open; a
\* recoverable error leads to the handler of lines 2280-2293
RequestAttempt ==
  /\ pc = "attempt"
  /\ \/ /\ current_pool \notin closed
        /\ pc' = "done" /\ response' = Returned("OverviewResponse")
        /\ UNCHANGED <<attempts, last_error>>
     \/ /\ pc' = "reset" /\ attempts' = attempts + 1 /\ last_error' = OperationalError(TRUE)
        /\ UNCHANGED response
     \/ /\ pc' = "failed" /\ response' = OperationalError(FALSE)
        /\ UNCHANGED <<attempts, last_error>>
  /\ UNCHANGED <<current_pool, pool, RaceRequestRest, poolVars, bgVars, fnVars>>

\* line 2291: _reset_pool(current_pool)
RequestResetPool ==
  /\ pc = "reset"
  /\ _pool' = reset_pool_global(current_pool)
  /\ closed' = reset_pool_closed(current_pool)
  /\ pc' = "get_pool"
  /\ UNCHANGED <<_DB_URL, created, attempts, last_error, current_pool, pool, response,
                 RaceRequestRest, bgVars, fnVars>>

\* line 1485: get_pool() in _persist_background
PersistGetPool ==
  /\ bg_pc = "get_pool"
  /\ IF _pool = None
     THEN bg_pc' = "get_pool_create" /\ UNCHANGED bg_current_pool
     ELSE bg_pc' = "loop" /\ bg_current_pool' = get_pool_result(_pool, created)
  /\ UNCHANGED <<bg_attempts, bg_last_error, RaceBgRest, poolVars, reqVars, fnVars>>

PersistGetPoolCreate ==
  /\ bg_pc = "get_pool_create"
  /\ _pool' = get_pool_result(None, created)
  /\ created' = get_pool_created(None, created)
  /\ bg_current_pool' = get_pool_result(None, created)
  /\ bg_pc' = "loop"
  /\ UNCHANGED <<_DB_URL, closed, bg_attempts, bg_last_error, RaceBgRest, reqVars, fnVars>>

\* one attempt of the write-back: it completes only on a pool that is open
PersistRaceAttempt ==
  /\ bg_pc = "attempt"
  /\ \/ /\ bg_current_pool \notin closed
        /\ bg_pc' = "returned" /\ UNCHANGED <<bg_attempts, bg_last_error>>
     \/ /\ bg_pc' = "reset" /\ bg_attempts' = bg_attempts + 1
        /\ bg_last_error' = OperationalError(TRUE)
     \/ /\ bg_pc' = "returned" /\ UNCHANGED <<bg_attempts, bg_last_error>>
  /\ UNCHANGED <<bg_current_pool, RaceBgRest, poolVars, reqVars, fnVars>>

\* line 1484: _reset_pool(current_pool) in _persist_background
PersistResetPool ==
  /\ bg_pc = "reset"
  /\ _pool' = reset_pool_global(bg_current_pool)
  /\ closed' = reset_pool_closed(bg_current_pool)
  /\ bg_pc' = "get_pool"
  /\ UNCHANGED <<_DB_URL, created, bg_attempts, bg_current_pool, bg_last_error, RaceBgRest,
                 reqVars, fnVars>>

\* the earlier request built pool 1 and returned; its write-back starts with
\* that pool while the next request resolves its pool parameter
InitPoolRace ==
  /\ _DB_URL = TRUE /\ _pool = 1 /\ created = 1 /\ closed = {}
  /\ req = CHOOSE r \in Requests : _validate_graph_params(r) = NoExc
  /\ pc = "get_pool"
  /\ attempts = 0 /\ last_error = NoExc /\ current_pool = None /\ pool = None
  /\ fetched = <<>> /\ point_count = 0 /\ called = <<>> /\ scheduled = 0
  /\ response = NoExc
  /\ bg_pc = "loop" /\ bg_attempts = 0 /\ bg_current_pool = 1
  /\ bg_last_error = NoExc /\ bg_history = <<>> /\ bg_sleeps = <<>>
  /\ args = None /\ result = None

NextPoolRace ==
  \/ RequestGetPool \/ RequestGetPoolCreate \/ RequestLoopTest \/ RequestAttempt
  \/ RequestResetPool
  \/ PersistGetPool \/ PersistGetPoolCreate \/ PersistLoopTest \/ PersistRaceAttempt
  \/ PersistResetPool

SpecPoolRace == InitPoolRace /\ [][NextPoolRace]_vars

\* the pools built so far that were never closed
OpenPools == (1..created) \ closed
\* a thread that has not finished holds pool p
HeldByWorker(p) ==
  \/ pc \notin {"done", "failed"} /\ current_pool = p
  \/ bg_pc # "returned" /\ bg_current_pool = p

\* C30 as stated: no open pool is dropped from the global variable: a pool that
\* was built and not closed is the global pool, or at least the pool of a
\* thread that is still running.
C30_NoOpenPoolDropped ==
  \A p \in OpenPools : p = _pool \/ HeldByWorker(p)

\* C30, what the code keeps: a reset closes the pool it is given and leaves the
\* global empty, whatever pool the global held.
C30_ResetClearsWhateverIsInstalled ==
  [][ /\ (pc = "reset" /\ pc' # pc) =>
           (_pool' = None /\ closed' = closed \cup {current_pool})
      /\ (bg_pc = "reset" /\ bg_pc' # bg_pc) =>
           (_pool' = None /\ closed' = closed \cup {bg_current_pool}) ]_vars

\* C30 witness: the write-back replaced pool 1 by pool 2 and finished on it; the
\* request, still holding pool 1, has reset it, and pool 2 is open, out of
\* the global and held by nobody
C30_Witness ==
  /\ pc = "get_pool" /\ attempts = 1 /\ current_pool = 1
  /\ bg_pc = "returned" /\ bg_current_pool = 2
  /\ _pool = None /\ closed = {1} /\ created = 2
  /\ 2 \in OpenPools /\ ~HeldByWorker(2)

====
